---- MODULE Spec2Model ----
(***************************************************************************)
(* Model of the self-update subsystem of tasklog                           *)
(* (src/internal/updater/updater.go), of its install script and of the     *)
(* comparison of a configuration with the example configuration.           *)
(*                                                                         *)
(* Five specifications share this module:                                  *)
(*   SpecInstall  the installer: downloadAndReplace step by step (one      *)
(*                action per system call), PerformUpgrade, RollbackUpgrade *)
(*   SpecCheck    the checker: CheckForUpdate and GetUpdateInfo over the   *)
(*                cache file, the clock and the release source, on a       *)
(*                linux/amd64 host                                         *)
(*   SpecInfo     GetUpdateInfo, determineChannel, NewUpdater and          *)
(*                getAssetNameForPlatform on every host platform           *)
(*   SpecVersion  the comparison of versions, pair by pair                 *)
(*   SpecConfig   CompareWithExample of package config: a user's           *)
(*                configuration against the example of the build           *)
(*                                                                         *)
(* Strings the code takes apart (version strings, checksum text, file      *)
(* contents) are sequences of one-character strings; strings the code only *)
(* compares or passes on are TLA+ strings.                                 *)
(***************************************************************************)
EXTENDS Integers, Sequences, FiniteSets, TLC

VARIABLES
    fs,          \* the filesystem: path -> file (content, mode), NoFile when absent
    pc,          \* position of the in-flight downloadAndReplace, "idle" between calls
    call,        \* arguments of the in-flight or last installer operation
    ret,         \* what the last installer operation returned
    pre,         \* the filesystem as it was when the last installer operation was called
    ops,         \* filesystem and network operations done by the last installer operation
    off,         \* bytes the stream in progress (download, copy) has written so far
    tmpSameFs,   \* whether os.TempDir() is on the filesystem of the live executable
    now,         \* the wall clock, in hours
    cacheFile,   \* the file update_cache.json in the cache directory
    checkInterval, \* Updater.checkInterval, in hours
    last,        \* the last call of the checker: its arguments and what it returned
    goos,        \* runtime.GOOS of the running binary
    goarch       \* runtime.GOARCH of the running binary

installVars ==
    <<fs, pc, call, ret, pre, ops, off, tmpSameFs>>

checkVars ==
    <<now, cacheFile, checkInterval, last>>

hostVars ==
    <<goos, goarch>>

vars ==
    <<fs, pc, call, ret, pre, ops, off, tmpSameFs, now, cacheFile, checkInterval, last,
      goos, goarch>>

-----------------------------------------------------------------------------
(* Files *)

NoFile ==
    [content |-> <<>>, mode |-> "none"]

Exists(f) ==
    f.mode # "none"

\* the resolved path of the running executable
BinaryPath ==
    "/usr/local/bin/tasklog"

\* filepath.Join(filepath.Dir(path), ".tasklog_write_test")
TestFilePath(path) ==
    "/usr/local/bin/.tasklog_write_test"

\* binaryPath + ".backup"
BackupPathOf(binaryPath) ==
    binaryPath \o ".backup"

\* the name os.CreateTemp("", "tasklog-update-*") returns
TmpPath ==
    "/tmp/tasklog-update-1"

\* the name os.CreateTemp("", "tasklog-checksum-*") returns
ChecksumTmpPath ==
    "/tmp/tasklog-checksum-1"

Paths ==
    {BinaryPath, BackupPathOf(BinaryPath), TestFilePath(BinaryPath), TmpPath, ChecksumTmpPath}

\* the binary installed before any upgrade
OldBin ==
    <<"A", "B">>

\* the release assets and checksum files the release host serves, by URL
Remote ==
    [u \in {"https://dl/tasklog_1.1.0", "https://dl/tasklog_1.2.0",
            "https://dl/sum_1.1.0", "https://dl/sum_bad", "https://dl/sum_upper"} |->
        CASE u = "https://dl/tasklog_1.1.0" -> <<"C", "D">>
          [] u = "https://dl/tasklog_1.2.0" -> <<"E">>
          [] u = "https://dl/sum_1.1.0"     -> <<"0", "c", "d", "\n">>
          [] u = "https://dl/sum_bad"       -> <<"0", "e", "e">>
          [] u = "https://dl/sum_upper"     -> <<" ", "0", "C", "D">>]

DownloadURLs ==
    {"https://dl/tasklog_1.1.0", "https://dl/tasklog_1.2.0"}

ChecksumURLs ==
    {"", "https://dl/sum_1.1.0", "https://dl/sum_bad", "https://dl/sum_upper"}

FileAt(f, path) ==
    IF path \in DOMAIN f THEN f[path] ELSE NoFile

\* os.Remove(path) of a file the caller created and closed, or of a name that is
\* already gone; the code discards its error, and the file is gone afterwards
RemoveFile(f, path) ==
    IF path \in DOMAIN f THEN [f EXCEPT ![path] = NoFile] ELSE f

\* mutant: an existing file is opened without being truncated
CreateFileKeepsContent(f, path) ==
    IF Exists(f[path]) THEN f
    ELSE [f EXCEPT ![path] = [content |-> <<>>, mode |-> "0644"]]

\* os.Create(path): a new empty file, or the existing one truncated (its mode kept)
CreateFile(f, path) ==
    [f EXCEPT ![path] = [content |-> <<>>,
                         mode |-> IF Exists(f[path]) THEN f[path].mode ELSE "0644"]]

\* os.CreateTemp: a new empty file, mode 0600
CreateTemp(f, path) ==
    [f EXCEPT ![path] = [content |-> <<>>, mode |-> "0600"]]

\* one Write of a byte to the open file at path
Write(f, path, byte) ==
    [f EXCEPT ![path].content = Append(@, byte)]

\* os.Chmod(path, mode)
Chmod(f, path, mode) ==
    [f EXCEPT ![path].mode = mode]

\* mutant: the file is copied onto the target and stays where it was
RenameKeepsSource(f, from, to) ==
    [f EXCEPT ![to] = f[from]]

\* os.Rename(from, to): to is replaced by the file at from in one step, from is gone
Rename(f, from, to) ==
    [f EXCEPT ![to] = f[from], ![from] = NoFile]

-----------------------------------------------------------------------------
(* Errors are the chain of messages fmt.Errorf("...: %w") builds; <<>> is nil *)

NoErr ==
    <<>>

Mentions(err, msg) ==
    \E i \in 1..Len(err) : err[i] = msg

-----------------------------------------------------------------------------
(* Checksums *)

Whitespace ==
    {" ", "\n", "\t", "\r"}

RECURSIVE TrimLeft(_)
TrimLeft(s) ==
    IF Len(s) > 0 /\ Head(s) \in Whitespace THEN TrimLeft(Tail(s)) ELSE s

RECURSIVE TrimRight(_)
TrimRight(s) ==
    IF Len(s) > 0 /\ s[Len(s)] \in Whitespace
    THEN TrimRight(SubSeq(s, 1, Len(s) - 1))
    ELSE s

\* strings.TrimSpace
TrimSpace(s) ==
    TrimRight(TrimLeft(s))

HexOf ==
    [b \in {"A", "B", "C", "D", "E"} |->
        CASE b = "A" -> "a" [] b = "B" -> "b" [] b = "C" -> "c"
          [] b = "D" -> "d" [] b = "E" -> "e"]

\* fmt.Sprintf("%x", h.Sum(nil)) over the file's bytes: a lower-case hexadecimal
\* digest, one-to-one on the contents the model has (no collisions)
Sha256Hex(data) ==
    <<"0">> \o [i \in 1..Len(data) |-> HexOf[data[i]]]

\* mutant: the checksum text is compared as downloaded, its whitespace kept
ChecksumMatchesUntrimmed(checksumData, fileContent) ==
    Sha256Hex(fileContent) = checksumData

\* mutant: the comparison is skipped
ChecksumAlwaysMatches(checksumData, fileContent) ==
    TRUE

\* the comparison verifyChecksum makes between the downloaded checksum text and
\* the digest of the file's content
ChecksumMatches(checksumData, fileContent) ==
    Sha256Hex(fileContent) = TrimSpace(checksumData)

-----------------------------------------------------------------------------
(* downloadAndReplace, one action per system call *)

NoRet ==
    [op |-> "none", backupPath |-> "", err |-> NoErr]

NoCall ==
    [op |-> "none", downloadURL |-> "", checksumURL |-> "", confirm |-> FALSE,
     backupPath |-> ""]

\* mutant: the asset is downloaded straight onto the live path
DownloadSinkLive ==
    BinaryPath

\* the file DownloadAsset(downloadURL, tmpFile) writes the asset to
DownloadSink ==
    TmpPath

\* a return of downloadAndReplace before the temp file exists
Return(backupPath, err, fsAfter, done) ==
    /\ ret' = [op |-> call.op, backupPath |-> backupPath, err |-> err]
    /\ fs' = fsAfter
    /\ ops' = ops \cup done
    /\ pc' = "idle"
    /\ off' = 0
    /\ UNCHANGED <<call, pre, tmpSameFs, checkVars, hostVars>>

\* mutant: the temp file is not removed on return
ReturnWithoutCleanup(backupPath, err, fsAfter, done) ==
    Return(backupPath, err, fsAfter, done)

\* a return after `defer os.Remove(tmpPath)` was registered
ReturnDeferred(backupPath, err, fsAfter, done) ==
    Return(backupPath, err, RemoveFile(fsAfter, TmpPath), done \cup {"remove tmp"})

\* a step of the call that goes on to the next position
Goto(next, fsAfter, done) ==
    /\ pc' = next
    /\ fs' = fsAfter
    /\ ops' = ops \cup done
    /\ off' = 0
    /\ UNCHANGED <<call, ret, pre, tmpSameFs, checkVars, hostVars>>

\* one byte of data streamed to the file at path (io.Copy's loop body)
Stream(path, data, done) ==
    /\ off < Len(data)
    /\ fs' = Write(fs, path, data[off + 1])
    /\ off' = off + 1
    /\ ops' = ops \cup done
    /\ UNCHANGED <<pc, call, ret, pre, tmpSameFs, checkVars, hostVars>>

\* entry of downloadAndReplace(downloadURL, checksumURL)
Enter(op, downloadURL, checksumURL) ==
    /\ pc = "idle"
    /\ pc' = "executable"
    /\ call' = [op |-> op, downloadURL |-> downloadURL, checksumURL |-> checksumURL,
                confirm |-> TRUE, backupPath |-> ""]
    /\ ret' = NoRet
    /\ pre' = fs
    /\ ops' = {}
    /\ off' = 0
    /\ UNCHANGED <<fs, tmpSameFs, checkVars, hostVars>>

\* a direct call, as the package's tests make it
DownloadAndReplace ==
    /\ pc = "idle"
    /\ \E u \in DownloadURLs, c \in ChecksumURLs : Enter("downloadAndReplace", u, c)

\* os.Executable()
StepExecutable ==
    /\ pc = "executable"
    /\ \/ Goto("evalSymlinks", fs, {})
       \/ Return("", <<"failed to get current binary path">>, fs, {})

\* filepath.EvalSymlinks(binaryPath)
StepEvalSymlinks ==
    /\ pc = "evalSymlinks"
    /\ \/ Goto("checkWritePermission", fs, {})
       \/ Return("", <<"failed to resolve binary path">>, fs, {})

\* mutant: the sentinel file is left behind
checkWritePermissionLeavesSentinel(f, path) ==
    CreateFile(f, TestFilePath(path))

\* the filesystem after a successful checkWritePermission(path)
checkWritePermission(f, path) ==
    RemoveFile(CreateFile(f, TestFilePath(path)), TestFilePath(path))

StepCheckWritePermission ==
    /\ pc = "checkWritePermission"
    /\ \/ Goto("createTemp", checkWritePermission(fs, BinaryPath),
               {"create sentinel", "remove sentinel"})
       \/ Return("", <<"insufficient permissions to update binary">>, fs, {})

StepCreateTemp ==
    /\ pc = "createTemp"
    /\ \/ Goto("downloadRequest", CreateTemp(fs, TmpPath), {"create tmp"})
       \/ Return("", <<"failed to create temp file">>, fs, {})

\* DownloadAsset(downloadURL, tmpFile): the request
StepDownloadRequest ==
    /\ pc = "downloadRequest"
    /\ \/ Goto("downloadBody", fs, {"GET asset"})
       \/ ReturnDeferred("", <<"failed to download binary">>, fs, {"GET asset"})

\* DownloadAsset(downloadURL, tmpFile): the body streamed into the sink
StepDownloadBody ==
    /\ pc = "downloadBody"
    /\ LET data == Remote[call.downloadURL]
       IN \/ Stream(DownloadSink, data, {"write download"})
          \/ /\ off >= Len(data)
             /\ Goto(IF call.checksumURL # "" THEN "verifyCreateTemp" ELSE "chmod", fs, {})
          \/ ReturnDeferred("", <<"failed to download binary">>, fs, {})

\* a return of verifyChecksum with an error, after its temp file was created:
\* the deferred Close and Remove of the checksum temp file run, then
\* downloadAndReplace wraps the error and returns
VerifyFailed(err) ==
    ReturnDeferred("", <<"checksum verification failed">> \o err,
                   RemoveFile(fs, ChecksumTmpPath), {"remove checksum tmp"})

\* verifyChecksum: os.CreateTemp("", "tasklog-checksum-*")
StepVerifyCreateTemp ==
    /\ pc = "verifyCreateTemp"
    /\ \/ Goto("verifyRequest", CreateTemp(fs, ChecksumTmpPath), {"create checksum tmp"})
       \/ ReturnDeferred("", <<"checksum verification failed",
                              "failed to create temp file for checksum">>, fs, {})

\* verifyChecksum: DownloadAsset(checksumURL, tmpFile), the request
StepVerifyRequest ==
    /\ pc = "verifyRequest"
    /\ \/ Goto("verifyBody", fs, {"GET checksum"})
       \/ VerifyFailed(<<"failed to download checksum">>)

\* verifyChecksum: DownloadAsset(checksumURL, tmpFile), the body
StepVerifyBody ==
    /\ pc = "verifyBody"
    /\ LET data == Remote[call.checksumURL]
       IN \/ Stream(ChecksumTmpPath, data, {"write checksum"})
          \/ /\ off >= Len(data)
             /\ Goto("verifyRead", fs, {})
          \/ VerifyFailed(<<"failed to download checksum">>)

\* verifyChecksum: Seek, ReadAll and TrimSpace of the checksum temp file
StepVerifyRead ==
    /\ pc = "verifyRead"
    /\ \/ Goto("verifyHash", fs, {})
       \/ VerifyFailed(<<"failed to seek checksum file">>)
       \/ VerifyFailed(<<"failed to read checksum">>)

\* verifyChecksum: os.Open(filePath) and io.Copy into the hash
StepVerifyHash ==
    /\ pc = "verifyHash"
    /\ \/ Goto("verifyCompare", fs, {})
       \/ VerifyFailed(<<"open or read of the downloaded file failed">>)

\* verifyChecksum: actualChecksum != expectedChecksum, and the return
StepVerifyCompare ==
    /\ pc = "verifyCompare"
    /\ IF ChecksumMatches(fs[ChecksumTmpPath].content, fs[TmpPath].content)
       THEN Goto("chmod", RemoveFile(fs, ChecksumTmpPath), {"remove checksum tmp"})
       ELSE VerifyFailed(<<"checksum mismatch">>)

\* os.Chmod(tmpPath, 0o755)
StepChmod ==
    /\ pc = "chmod"
    /\ \/ Goto("copyOpen", Chmod(fs, TmpPath, "0755"), {"chmod tmp"})
       \/ ReturnDeferred("", <<"failed to make binary executable">>, fs, {})

\* mutant: the error of copyFile is ignored and the swap goes ahead
CopyFailedIgnored(fsAfter) ==
    Goto("rename", fsAfter, {})

\* a return of copyFile with an error, wrapped by downloadAndReplace
CopyFailed(fsAfter) ==
    ReturnDeferred("", <<"failed to create backup">>, fsAfter, {})

\* copyFile(binaryPath, backupPath): os.Open(src)
StepCopyOpen ==
    /\ pc = "copyOpen"
    /\ \/ /\ Exists(fs[BinaryPath])
          /\ Goto("copyCreate", fs, {})
       \/ CopyFailed(fs)

\* copyFile: os.Create(dst)
StepCopyCreate ==
    /\ pc = "copyCreate"
    /\ \/ Goto("copyIO", CreateFile(fs, BackupPathOf(BinaryPath)), {"create backup"})
       \/ CopyFailed(fs)

\* copyFile: io.Copy(dstFile, srcFile)
StepCopyIO ==
    /\ pc = "copyIO"
    /\ LET data == fs[BinaryPath].content
       IN \/ Stream(BackupPathOf(BinaryPath), data, {"write backup"})
          \/ /\ off >= Len(data)
             /\ Goto("copyStat", fs, {})
          \/ CopyFailed(fs)

\* copyFile: os.Stat(src)
StepCopyStat ==
    /\ pc = "copyStat"
    /\ \/ Goto("copyChmod", fs, {})
       \/ CopyFailed(fs)

\* mutant: the permissions of the source are not copied to the backup
StepCopyChmodSkipped ==
    /\ pc = "copyChmod"
    /\ \/ Goto("rename", fs, {"chmod backup"})
       \/ CopyFailed(fs)

\* copyFile: os.Chmod(dst, srcInfo.Mode())
StepCopyChmod ==
    /\ pc = "copyChmod"
    /\ \/ Goto("rename", Chmod(fs, BackupPathOf(BinaryPath), fs[BinaryPath].mode),
               {"chmod backup"})
       \/ CopyFailed(fs)

\* mutant: the live file is removed before the rename, so a failed rename loses it
StepRenameRemovesFirst ==
    /\ pc = "rename"
    /\ \/ /\ tmpSameFs
          /\ ReturnDeferred(BackupPathOf(BinaryPath), NoErr,
                            Rename(fs, TmpPath, BinaryPath), {"rename"})
       \/ ReturnDeferred(BackupPathOf(BinaryPath), <<"failed to replace binary">>,
                         RemoveFile(fs, BinaryPath), {"rename failed"})

\* mutant: a failed rename returns the empty backup path, like the other errors
StepRenameEmptyPath ==
    /\ pc = "rename"
    /\ \/ /\ tmpSameFs
          /\ ReturnDeferred(BackupPathOf(BinaryPath), NoErr,
                            Rename(fs, TmpPath, BinaryPath), {"rename"})
       \/ ReturnDeferred("", <<"failed to replace binary">>, fs, {"rename failed"})

\* os.Rename(tmpPath, binaryPath), then the return
StepRename ==
    /\ pc = "rename"
    /\ \/ /\ tmpSameFs
          /\ ReturnDeferred(BackupPathOf(BinaryPath), NoErr,
                            Rename(fs, TmpPath, BinaryPath), {"rename"})
       \/ ReturnDeferred(BackupPathOf(BinaryPath), <<"failed to replace binary">>, fs,
                         {"rename failed"})

-----------------------------------------------------------------------------
(* PerformUpgrade and RollbackUpgrade *)

\* the UpdateInfo values PerformUpgrade is called with
UpdateInfos ==
    {[CurrentVersion |-> "1.0.0", LatestVersion |-> "1.1.0",
      ReleaseURL |-> "https://github.com/owner/repo/releases/tag/v1.1.0",
      ReleaseNotes |-> "notes", DownloadURL |-> u, AssetName |-> "tasklog_linux_x86_64",
      IsPreRelease |-> FALSE] : u \in DownloadURLs}

\* the checksum URL PerformUpgrade passes to downloadAndReplace
PerformUpgradeChecksumURL(info) ==
    ""

\* mutant: the answer is asked for after the temp file was created
PerformUpgradeCancelledLate ==
    /\ pc = "idle"
    /\ \E info \in UpdateInfos :
        call' = [op |-> "PerformUpgrade", downloadURL |-> info.DownloadURL,
                 checksumURL |-> "", confirm |-> FALSE, backupPath |-> ""]
    /\ ret' = [op |-> "PerformUpgrade", backupPath |-> "",
               err |-> <<"upgrade cancelled by user">>]
    /\ pre' = fs
    /\ fs' = CreateTemp(fs, TmpPath)
    /\ ops' = {"create tmp"}
    /\ UNCHANGED <<pc, off, tmpSameFs, checkVars, hostVars>>

\* PerformUpgrade(updateInfo, confirm): confirm answers no
PerformUpgradeCancelled ==
    /\ pc = "idle"
    /\ \E info \in UpdateInfos :
        call' = [op |-> "PerformUpgrade", downloadURL |-> info.DownloadURL,
                 checksumURL |-> "", confirm |-> FALSE, backupPath |-> ""]
    /\ ret' = [op |-> "PerformUpgrade", backupPath |-> "",
               err |-> <<"upgrade cancelled by user">>]
    /\ pre' = fs
    /\ ops' = {}
    /\ UNCHANGED <<fs, pc, off, tmpSameFs, checkVars, hostVars>>

\* PerformUpgrade(updateInfo, confirm): confirm answers yes; what
\* downloadAndReplace returns is returned as it is
PerformUpgradeConfirmed ==
    /\ pc = "idle"
    /\ \E info \in UpdateInfos :
        Enter("PerformUpgrade", info.DownloadURL, PerformUpgradeChecksumURL(info))

\* the backup paths RollbackUpgrade is called with: the one downloadAndReplace
\* returns on success or on a failed rename, and the empty one it returns otherwise
RollbackPaths ==
    {BackupPathOf(BinaryPath), ""}

\* RollbackUpgrade(backupPath)
RollbackUpgrade ==
    /\ pc = "idle"
    /\ \E backupPath \in RollbackPaths :
        /\ call' = [op |-> "RollbackUpgrade", downloadURL |-> "", checksumURL |-> "",
                    confirm |-> TRUE, backupPath |-> backupPath]
        /\ \/ /\ ret' = [op |-> "RollbackUpgrade", backupPath |-> "",
                         err |-> <<"failed to get binary path">>]
              /\ UNCHANGED fs
           \/ /\ ret' = [op |-> "RollbackUpgrade", backupPath |-> "",
                         err |-> <<"failed to resolve binary path">>]
              /\ UNCHANGED fs
           \/ /\ ret' = [op |-> "RollbackUpgrade", backupPath |-> "",
                         err |-> <<"rollback failed">>]
              /\ UNCHANGED fs
           \/ /\ Exists(FileAt(fs, backupPath))
              /\ ret' = [op |-> "RollbackUpgrade", backupPath |-> "", err |-> NoErr]
              /\ fs' = Rename(fs, backupPath, BinaryPath)
    /\ pre' = fs
    /\ ops' = {}
    /\ UNCHANGED <<pc, off, tmpSameFs, checkVars, hostVars>>

-----------------------------------------------------------------------------
(* Versions (package version.go): strings are sequences of characters *)

Digits ==
    {"0", "1", "2", "3", "4", "5", "6", "7", "8", "9"}

DigitValue ==
    [d \in Digits |->
        CASE d = "0" -> 0 [] d = "1" -> 1 [] d = "2" -> 2 [] d = "3" -> 3 [] d = "4" -> 4
          [] d = "5" -> 5 [] d = "6" -> 6 [] d = "7" -> 7 [] d = "8" -> 8 [] d = "9" -> 9]

DigitChar ==
    [n \in 0..9 |-> CHOOSE d \in Digits : DigitValue[d] = n]

IsNumeric(s) ==
    Len(s) > 0 /\ \A i \in 1..Len(s) : s[i] \in Digits

RECURSIVE Atoi(_)
Atoi(s) ==
    IF Len(s) = 0 THEN 0
    ELSE Atoi(SubSeq(s, 1, Len(s) - 1)) * 10 + DigitValue[s[Len(s)]]

RECURSIVE Itoa(_)
Itoa(n) ==
    IF n < 10 THEN <<DigitChar[n]>> ELSE Itoa(n \div 10) \o <<DigitChar[n % 10]>>

\* the index of the first sep in s, 0 when there is none
RECURSIVE IndexFrom(_, _, _)
IndexFrom(s, sep, i) ==
    IF i > Len(s) THEN 0
    ELSE IF s[i] = sep THEN i
    ELSE IndexFrom(s, sep, i + 1)

\* strings.Split(s, sep) for a one-character sep
RECURSIVE Split(_, _)
Split(s, sep) ==
    LET i == IndexFrom(s, sep, 1)
    IN IF i = 0 THEN <<s>>
       ELSE <<SubSeq(s, 1, i - 1)>> \o Split(SubSeq(s, i + 1, Len(s)), sep)

ParseFailed ==
    [ok |-> FALSE, major |-> 0, minor |-> 0, patch |-> 0, prerelease |-> <<>>]

\* ParseVersion(text): "major.minor.patch[-prerelease]", a leading "v" stripped
ParseVersion(text) ==
    LET t == IF Len(text) > 0 /\ text[1] = "v" THEN Tail(text) ELSE text
        dash == IndexFrom(t, "-", 1)
        core == IF dash = 0 THEN t ELSE SubSeq(t, 1, dash - 1)
        label == IF dash = 0 THEN <<>> ELSE SubSeq(t, dash + 1, Len(t))
        parts == Split(core, ".")
    IN IF /\ Len(parts) = 3
          /\ \A i \in 1..3 : IsNumeric(parts[i])
          /\ (dash = 0 \/ Len(label) > 0)
       THEN [ok |-> TRUE, major |-> Atoi(parts[1]), minor |-> Atoi(parts[2]),
             patch |-> Atoi(parts[3]), prerelease |-> label]
       ELSE ParseFailed

\* Version.String(): the canonical text, without the "v"
String(v) ==
    Itoa(v.major) \o <<".">> \o Itoa(v.minor) \o <<".">> \o Itoa(v.patch)
        \o (IF v.prerelease = <<>> THEN <<>> ELSE <<"-">> \o v.prerelease)

\* Version.Prerelease(): the label, empty for a stable release
Prerelease(v) ==
    v.prerelease

S_alpha ==
    <<"a", "l", "p", "h", "a">>

S_beta ==
    <<"b", "e", "t", "a">>

S_rc ==
    <<"r", "c">>

S_stable ==
    <<"s", "t", "a", "b", "l", "e">>

\* the precedence of a pre-release label's channel: alpha < beta < rc
ChannelRank(label) ==
    LET ch == Split(label, ".")[1]
    IN IF ch = S_alpha THEN 1 ELSE IF ch = S_beta THEN 2 ELSE IF ch = S_rc THEN 3 ELSE 0

\* the numeric counter of a pre-release label, 0 when it has none
ChannelCounter(label) ==
    LET parts == Split(label, ".")
    IN IF Len(parts) >= 2 /\ IsNumeric(parts[2]) THEN Atoi(parts[2]) ELSE 0

\* Version.IsNewerThan(other)
IsNewerThan(a, b) ==
    IF a.major # b.major THEN a.major > b.major
    ELSE IF a.minor # b.minor THEN a.minor > b.minor
    ELSE IF a.patch # b.patch THEN a.patch > b.patch
    ELSE IF a.prerelease = <<>> THEN b.prerelease # <<>>
    ELSE IF b.prerelease = <<>> THEN FALSE
    ELSE IF ChannelRank(a.prerelease) # ChannelRank(b.prerelease)
         THEN ChannelRank(a.prerelease) > ChannelRank(b.prerelease)
    ELSE ChannelCounter(a.prerelease) > ChannelCounter(b.prerelease)

-----------------------------------------------------------------------------
(* The host platform *)

S_linux ==
    <<"l", "i", "n", "u", "x">>

S_darwin ==
    <<"d", "a", "r", "w", "i", "n">>

S_windows ==
    <<"w", "i", "n", "d", "o", "w", "s">>

S_amd64 ==
    <<"a", "m", "d", "6", "4">>

S_386 ==
    <<"3", "8", "6">>

S_arm64 ==
    <<"a", "r", "m", "6", "4">>

S_arm ==
    <<"a", "r", "m">>

S_x86_64 ==
    <<"x", "8", "6", "_", "6", "4">>

S_i386 ==
    <<"i", "3", "8", "6">>

\* the values of runtime.GOOS and runtime.GOARCH the binary is built for
GOOSes ==
    {S_linux, S_darwin, S_windows}

GOARCHes ==
    {S_amd64, S_386, S_arm64, S_arm}

\* mutant: the architecture is not renamed
getAssetNameForPlatformAsIs ==
    goos \o <<"_">> \o goarch

\* getAssetNameForPlatform(): fmt.Sprintf("%s_%s", goos, arch)
getAssetNameForPlatform ==
    LET arch == CASE goarch = S_amd64 -> S_x86_64
                  [] goarch = S_386 -> S_i386
                  [] OTHER -> goarch
    IN goos \o <<"_">> \o arch

\* the install script: OS="$(uname -s)" on a host the binary for goos runs on
UnameS ==
    CASE goos = S_linux -> "Linux"
      [] goos = S_darwin -> "Darwin"
      [] OTHER -> "other"

\* the install script: the values ARCH="$(uname -m)" can have on a host the
\* binary for goarch runs on
UnameM ==
    CASE goarch = S_amd64 -> {"x86_64"}
      [] goarch = S_arm64 -> {"aarch64", "arm64"}
      [] OTHER -> {"other"}

\* the install script: case "$OS", <<>> where the script exits with "Unsupported
\* operating system"
ScriptOS(os) ==
    CASE os = "Linux" -> S_linux
      [] os = "Darwin" -> S_darwin
      [] OTHER -> <<>>

\* the install script: case "$ARCH", <<>> where the script exits with
\* "Unsupported architecture"
ScriptArch(arch) ==
    CASE arch = "x86_64" -> S_amd64
      [] arch \in {"aarch64", "arm64"} -> S_arm64
      [] OTHER -> <<>>

\* the install script: BINARY_NAME="tasklog_${VERSION}_${OS}_${ARCH}"
BINARY_NAME(version, os, arch) ==
    <<"t", "a", "s", "k", "l", "o", "g", "_">> \o version \o <<"_">> \o os \o <<"_">> \o arch

\* the values of the script's VERSION argument
ScriptVersions ==
    {<<"1", ".", "1", ".", "0">>, <<"2", ".", "0", ".", "0", "-", "r", "c", ".", "1">>}

-----------------------------------------------------------------------------
(* The comparison of a configuration with the example (package config) *)

K_jira ==
    <<"j", "i", "r", "a">>

K_update ==
    <<"u", "p", "d", "a", "t", "e">>

K_url ==
    <<"u", "r", "l">>

K_channel ==
    <<"c", "h", "a", "n", "n", "e", "l">>

\* a key of the user's file that has a dot in it
K_jira_url ==
    K_jira \o <<".">> \o K_url

\* the keys of the top level and of the sections of the example
TopKeys ==
    {K_jira, K_update}

NestedKeys ==
    {K_url, K_channel}

\* map[string]interface{} with no key (a nil map reads the same)
EmptyMap ==
    [key \in {} |-> FALSE]

\* an interface{} value that is no map (a string, a number, a list)
Scalar ==
    [isMap |-> FALSE, m |-> EmptyMap]

\* an interface{} value that is a map[string]interface{}
MapValue(m) ==
    [isMap |-> TRUE, m |-> m]

\* the maps with keys among keys and values among values
MapsOver(keys, values) ==
    UNION {[d -> values] : d \in SUBSET keys}

\* the values of a top-level key: a scalar or a section of scalars
ConfigValues ==
    {Scalar} \cup {MapValue(m) : m \in MapsOver(NestedKeys, {Scalar})}

\* GenerateExampleConfig(): the example a build may generate, parsed; its keys
\* have no dot, as those TestCompareWithExample names
ExampleConfigs ==
    MapsOver(TopKeys, ConfigValues) \ {EmptyMap}

\* the configurations a user's file may hold: any of the keys of the example
\* with any value, and a key of its own
UserConfigs ==
    LET plain == MapsOver(TopKeys, ConfigValues)
    IN plain \cup {(K_jira_url :> Scalar) @@ m : m \in plain}

\* userConfigData: a YAML document, given as the map it denotes, or bytes that are
\* no YAML
MalformedYAML ==
    [wellFormed |-> FALSE, document |-> EmptyMap]

UserConfigData ==
    {MalformedYAML} \cup {[wellFormed |-> TRUE, document |-> m] : m \in UserConfigs}

\* yaml.Unmarshal(data, &config)
yamlUnmarshal(data) ==
    IF data.wellFormed THEN [err |-> NoErr, config |-> data.document]
    ELSE [err |-> <<"yaml: unmarshal error">>, config |-> EmptyMap]

\* currentPath: key, or prefix + "." + key
CurrentPath(prefix, key) ==
    IF prefix = <<>> THEN key ELSE prefix \o <<".">> \o key

\* mutant: the sections are compared whenever the first value is a map
FirstIsMap(firstValue, secondValue) ==
    firstValue.isMap

\* exampleIsMap && userIsMap (userIsMap && exampleIsMap in findExtraKeys)
BothMaps(firstValue, secondValue) ==
    firstValue.isMap /\ secondValue.isMap

\* the slice with no entry; a slice is modelled as the bag of its entries, the
\* order of a range over a map being unspecified
NoKeys ==
    <<>>

\* append(*missing, currentPath) to a bag of entries
Append1(entries, path) ==
    IF path \in DOMAIN entries THEN [entries EXCEPT ![path] = @ + 1]
    ELSE (path :> 1) @@ entries

\* findMissingKeys(example, user, prefix, missing): the loop from the keys of the
\* example still to visit, missing being the entries appended so far
RECURSIVE findMissingKeysFrom(_, _, _, _, _)
findMissingKeysFrom(keys, example, user, prefix, missing) ==
    IF keys = {} THEN missing
    ELSE LET key == CHOOSE k \in keys : TRUE
             currentPath == CurrentPath(prefix, key)
             exists == key \in DOMAIN user
             after == IF ~exists THEN Append1(missing, currentPath)
                      ELSE IF BothMaps(example[key], user[key])
                           THEN findMissingKeysFrom(DOMAIN example[key].m, example[key].m,
                                                    user[key].m, currentPath, missing)
                           ELSE missing
         IN findMissingKeysFrom(keys \ {key}, example, user, prefix, after)

findMissingKeys(example, user, prefix, missing) ==
    findMissingKeysFrom(DOMAIN example, example, user, prefix, missing)

\* findExtraKeys(user, example, prefix, extra), likewise
RECURSIVE findExtraKeysFrom(_, _, _, _, _)
findExtraKeysFrom(keys, user, example, prefix, extra) ==
    IF keys = {} THEN extra
    ELSE LET key == CHOOSE k \in keys : TRUE
             currentPath == CurrentPath(prefix, key)
             exists == key \in DOMAIN example
             after == IF ~exists THEN Append1(extra, currentPath)
                      ELSE IF BothMaps(user[key], example[key])
                           THEN findExtraKeysFrom(DOMAIN user[key].m, user[key].m,
                                                  example[key].m, currentPath, extra)
                           ELSE extra
         IN findExtraKeysFrom(keys \ {key}, user, example, prefix, after)

findExtraKeys(user, example, prefix, extra) ==
    findExtraKeysFrom(DOMAIN user, user, example, prefix, extra)

\* mutant: a configuration with extra keys is not up to date
IsUpToDateWithoutExtras(missingKeys, extraKeys) ==
    missingKeys = NoKeys /\ extraKeys = NoKeys

\* result.IsUpToDate = len(result.MissingKeys) == 0
IsUpToDate(missingKeys, extraKeys) ==
    DOMAIN missingKeys = {}

\* the *ComparisonResult of a call that returned an error
NilResult ==
    [isNil |-> TRUE, MissingKeys |-> NoKeys, ExtraKeys |-> NoKeys, IsUpToDate |-> FALSE]

\* CompareWithExample(userConfigData), exampleConfig being the parsed example
CompareWithExampleResult(userConfigData, exampleConfig) ==
    LET parsed == yamlUnmarshal(userConfigData)
        missingKeys == findMissingKeys(exampleConfig, parsed.config, <<>>, NoKeys)
        extraKeys == findExtraKeys(parsed.config, exampleConfig, <<>>, NoKeys)
    IN IF parsed.err # NoErr
       THEN [result |-> NilResult,
             err |-> <<"failed to parse user config">> \o parsed.err]
       ELSE [result |-> [isNil |-> FALSE, MissingKeys |-> missingKeys,
                         ExtraKeys |-> extraKeys,
                         IsUpToDate |-> IsUpToDate(missingKeys, extraKeys)],
             err |-> NoErr]

-----------------------------------------------------------------------------
(* The update cache *)

\* the clock advances by this many hours at a time
TickHours == 24

\* the clock stops here
MaxTime == 48

\* the check interval NewUpdater falls back to, in hours
DefaultCheckInterval == 24

\* a nil *UpdateCache
NilCache ==
    [isNil |-> TRUE, LastCheck |-> 0, UpdateAvailable |-> FALSE, CurrentVersion |-> <<>>,
     LatestVersion |-> <<>>, IsPreRelease |-> FALSE, ReleaseURL |-> <<>>,
     Dismissed |-> FALSE]

\* mutant: the time of the check is not recorded
UpdateCacheWithoutLastCheck(lastCheck, available, current, latest, isPreRelease, releaseURL, dismissed) ==
    [isNil |-> FALSE, LastCheck |-> 0, UpdateAvailable |-> available,
     CurrentVersion |-> current, LatestVersion |-> latest,
     IsPreRelease |-> isPreRelease, ReleaseURL |-> releaseURL, Dismissed |-> dismissed]

\* &UpdateCache{...}
UpdateCache(lastCheck, available, current, latest, isPreRelease, releaseURL, dismissed) ==
    [isNil |-> FALSE, LastCheck |-> lastCheck, UpdateAvailable |-> available,
     CurrentVersion |-> current, LatestVersion |-> latest,
     IsPreRelease |-> isPreRelease, ReleaseURL |-> releaseURL, Dismissed |-> dismissed]

\* mutant: the release URL is not written out
MarshalWithoutURL(cache) ==
    [last_check |-> cache.LastCheck, update_available |-> cache.UpdateAvailable,
     current_version |-> cache.CurrentVersion, latest_version |-> cache.LatestVersion,
     is_prerelease |-> cache.IsPreRelease, release_url |-> <<>>,
     dismissed |-> cache.Dismissed]

\* json.Marshal(cache): the object under the struct's json tags
Marshal(cache) ==
    [last_check |-> cache.LastCheck, update_available |-> cache.UpdateAvailable,
     current_version |-> cache.CurrentVersion, latest_version |-> cache.LatestVersion,
     is_prerelease |-> cache.IsPreRelease, release_url |-> cache.ReleaseURL,
     dismissed |-> cache.Dismissed]

\* json.Unmarshal(data, &cache)
Unmarshal(json) ==
    [isNil |-> FALSE, LastCheck |-> json.last_check,
     UpdateAvailable |-> json.update_available, CurrentVersion |-> json.current_version,
     LatestVersion |-> json.latest_version, IsPreRelease |-> json.is_prerelease,
     ReleaseURL |-> json.release_url, Dismissed |-> json.dismissed]

\* the cache file: absent, holding bytes that are no JSON, or holding a JSON object
AbsentFile ==
    [state |-> "absent", json |-> Marshal(NilCache)]

CorruptFile ==
    [state |-> "corrupt", json |-> Marshal(NilCache)]

JSONFile(json) ==
    [state |-> "json", json |-> json]

\* mutant: a failed read is not noticed
getCachedUpdateIgnoresReadError(file, readOk) ==
    IF file.state = "json" THEN Unmarshal(file.json) ELSE NilCache

\* getCachedUpdate(): nil when the file cannot be read or does not parse
getCachedUpdate(file, readOk) ==
    IF ~readOk \/ file.state = "absent" THEN NilCache
    ELSE IF file.state = "corrupt" THEN NilCache
    ELSE Unmarshal(file.json)

\* whether os.ReadFile(cacheFile) can succeed: never on a missing file, and it may
\* fail on an existing one
ReadOutcomes(file) ==
    IF file.state = "absent" THEN {FALSE} ELSE BOOLEAN

\* mutant: the boundary age triggers a check
shouldCheckAtBoundary(cache, t, interval) ==
    IF cache.isNil THEN TRUE ELSE t - cache.LastCheck >= interval

\* shouldCheckForUpdate(cache), with time.Now() = t and u.checkInterval = interval
shouldCheckForUpdate(cache, t, interval) ==
    IF cache.isNil THEN TRUE ELSE t - cache.LastCheck > interval

\* mutant: only an available update is written to the cache
saveUpdateCacheIfAvailable(file, cache, outcome) ==
    IF outcome = "ok" /\ cache.UpdateAvailable THEN JSONFile(Marshal(cache)) ELSE file

\* what becomes of the cache file in saveUpdateCache
SaveOutcomes ==
    {"ok", "mkdir failed", "write failed", "write truncated"}

\* saveUpdateCache(cache): the cache file afterwards. MkdirAll may fail, WriteFile
\* may fail before it truncates the file or after; the errors are only logged
saveUpdateCache(file, cache, outcome) ==
    CASE outcome = "ok" -> JSONFile(Marshal(cache))
      [] outcome = "mkdir failed" -> file
      [] outcome = "write failed" -> file
      [] outcome = "write truncated" -> CorruptFile

\* mutant: a failed cache write is reported to the caller
saveUpdateCacheReportsFailure(outcome) ==
    IF outcome = "ok" THEN NoErr ELSE <<"failed to save update cache">>

\* what saveUpdateCache(cache) reports to its caller: nothing, it has no return
\* value and only logs its errors
saveUpdateCacheError(outcome) ==
    NoErr

\* the duration strings NewUpdater is given
IntervalStrings ==
    {"24h", "every day"}

\* str2duration.ParseDuration(checkInterval), in hours
ParseDuration(text) ==
    CASE text = "24h" -> [ok |-> TRUE, hours |-> 24]
      [] text = "12h" -> [ok |-> TRUE, hours |-> 12]
      [] text = "1d" -> [ok |-> TRUE, hours |-> 24]
      [] OTHER -> [ok |-> FALSE, hours |-> 0]

\* the duration strings the NewUpdater of a later run of the tool may be given
DurationStrings ==
    {"24h", "12h", "1d", "every day", "tomorrow"}

\* mutant: no default takes the place of a duration that did not parse
NewUpdaterNoDefault(text) ==
    ParseDuration(text).hours

\* NewUpdater(owner, repo, cacheDir, checkInterval).checkInterval
NewUpdater(text) ==
    IF ParseDuration(text).ok THEN ParseDuration(text).hours ELSE DefaultCheckInterval

-----------------------------------------------------------------------------
(* CheckForUpdate *)

V_1_0_0 ==
    <<"1", ".", "0", ".", "0">>

V_v1_1_0 ==
    <<"v", "1", ".", "1", ".", "0">>

V_1_0_0_alpha_1 ==
    <<"1", ".", "0", ".", "0", "-">> \o S_alpha \o <<".", "1">>

V_dev ==
    <<"d", "e", "v">>

V_1_0_0_beta_2 ==
    V_1_0_0 \o <<"-">> \o S_beta \o <<".", "2">>

V_1_0_0_rc_1 ==
    V_1_0_0 \o <<"-">> \o S_rc \o <<".", "1">>

V_1_0_0_dev ==
    V_1_0_0 \o <<"-">> \o V_dev

V_1_0_0_alpha ==
    V_1_0_0 \o <<"-">> \o S_alpha

V_1_0_0_stable_1 ==
    V_1_0_0 \o <<"-">> \o S_stable \o <<".", "1">>

\* the version strings the binary is built with
CurrentVersions ==
    {V_1_0_0, V_1_0_0_alpha_1, V_dev}

V_1_2_0 ==
    <<"1", ".", "2", ".", "0">>

\* the version strings GetUpdateInfo is called with: one the releases are newer
\* than or equal to, one newer than every release, one that does not parse
InfoVersions ==
    {V_1_0_0, V_1_2_0, V_dev}

\* the release triples and the pre-release labels (channel and counter) of the
\* versions that are compared with each other
OrderCores ==
    {V_1_0_0, <<"1", ".", "9", ".", "0">>, <<"1", ".", "1", "0", ".", "0">>,
     <<"2", ".", "0", ".", "0">>}

OrderLabels ==
    {<<>>, S_alpha \o <<".", "1">>, S_alpha \o <<".", "2">>, S_alpha \o <<".", "1", "0">>,
     S_beta \o <<".", "1">>, S_rc \o <<".", "1">>}

\* the text "major.minor.patch[-prerelease]" of a triple and a label
VersionText(core, label) ==
    core \o (IF label = <<>> THEN <<>> ELSE <<"-">> \o label)

OrderVersions ==
    {VersionText(core, label) : core \in OrderCores, label \in OrderLabels}

\* the configured update channel
ConfigChannels ==
    {<<>>, S_beta}

S_nightly ==
    <<"n", "i", "g", "h", "t", "l", "y">>

\* the versions and the configured channels determineChannel is called with, those of
\* TestDetermineChannel among them
ChannelVersions ==
    {V_1_0_0, V_1_0_0_alpha_1, V_1_0_0_beta_2, V_1_0_0_rc_1, V_1_0_0_dev, V_1_0_0_alpha,
     V_1_0_0_stable_1}

ChannelStrings ==
    {<<>>, S_stable, S_alpha, S_beta, S_rc, S_nightly}

\* the releases the release source may report as the latest one
Releases ==
    {[TagName |-> <<"v">> \o V_1_0_0, Prerelease |-> FALSE, Body |-> "notes",
      Assets |-> <<>>],
     [TagName |-> V_v1_1_0, Prerelease |-> FALSE, Body |-> "notes", Assets |-> <<>>],
     [TagName |-> V_v1_1_0 \o <<"-">> \o S_beta \o <<".", "1">>, Prerelease |-> TRUE,
      Body |-> "", Assets |-> <<>>],
     [TagName |-> <<"l", "a", "t", "e", "s", "t">>, Prerelease |-> FALSE, Body |-> "",
      Assets |-> <<>>]}

\* what a call of the release source returns: a release, or an error
ReleaseAnswers ==
    [failed : {FALSE}, release : Releases]
        \cup {[failed |-> TRUE,
               release |-> [TagName |-> <<>>, Prerelease |-> FALSE, Body |-> "",
                            Assets |-> <<>>]]}

\* ParseVersion on the version strings and tags of the model, computed once
Parsed ==
    [text \in CurrentVersions \cup {r.TagName : r \in Releases} \cup {<<>>}
                \cup ChannelVersions \cup InfoVersions \cup OrderVersions |->
        ParseVersion(text)]

\* githubClient.GetReleaseURL(tag)
GetReleaseURL(tag) ==
    <<"https://github.com/owner/repo/releases/tag/">> \o tag

\* mutant: the pre-release track of the running version wins over the configuration
determineChannelKeepsTrack(currentVersion, configChannel) ==
    IF Prerelease(currentVersion) # <<>>
    THEN Split(Prerelease(currentVersion), ".")[1]
    ELSE IF configChannel # S_stable THEN configChannel ELSE <<>>

\* mutant: any pre-release label names a channel
determineChannelAnyLabel(currentVersion, configChannel) ==
    IF configChannel # <<>> /\ configChannel # S_stable THEN configChannel
    ELSE IF Prerelease(currentVersion) # <<>>
         THEN Split(Prerelease(currentVersion), ".")[1]
    ELSE <<>>

\* determineChannel(currentVersion, configChannel)
determineChannel(currentVersion, configChannel) ==
    IF configChannel # <<>> /\ configChannel # S_stable THEN configChannel
    ELSE IF Prerelease(currentVersion) # <<>>
         THEN LET parts == Split(Prerelease(currentVersion), ".")
              IN IF Len(parts) > 0 /\ parts[1] \in {S_alpha, S_beta, S_rc}
                 THEN parts[1]
                 ELSE <<>>
    ELSE <<>>

\* the call of the release source made for a channel
FetchLatest(effectiveChannel) ==
    IF effectiveChannel = <<>>
    THEN [api |-> "GetLatestRelease", channel |-> <<>>]
    ELSE [api |-> "GetLatestPreRelease", channel |-> effectiveChannel]

NilNotification ==
    [isNil |-> TRUE, Available |-> FALSE, CurrentVersion |-> <<>>, LatestVersion |-> <<>>,
     IsPreRelease |-> FALSE, ReleaseURL |-> <<>>]

\* &UpdateNotification{...}
UpdateNotification(available, currentVersion, latestVersion, isPreRelease, releaseURL) ==
    [isNil |-> FALSE, Available |-> available, CurrentVersion |-> currentVersion,
     LatestVersion |-> latestVersion, IsPreRelease |-> isPreRelease,
     ReleaseURL |-> releaseURL]

\* mutant: the projection leaves the release URL out
NotificationWithoutURL(cache) ==
    UpdateNotification(cache.UpdateAvailable, cache.CurrentVersion, cache.LatestVersion,
                       cache.IsPreRelease, <<>>)

\* the notification CheckForUpdate builds from a fresh cache entry
NotificationFromCache(cache) ==
    UpdateNotification(cache.UpdateAvailable, cache.CurrentVersion, cache.LatestVersion,
                       cache.IsPreRelease, cache.ReleaseURL)

\* mutant: a release that is not older counts as an update
UpdateIsAvailableUnlessOlder(latest, current) ==
    ~IsNewerThan(current, latest)

\* whether an update is available: latest.IsNewerThan(current)
UpdateIsAvailable(latest, current) ==
    IsNewerThan(latest, current)

\* mutant: a tag that does not parse is let through
TagParseNeverFails(latest) ==
    FALSE

\* whether ParseVersion(release.TagName) returned an error
TagParseFailed(latest) ==
    ~latest.ok

\* mutant: the error of the release source is not looked at
FetchFailureIgnored(answer) ==
    FALSE

\* whether the call of the release source returned an error
FetchFailed(answer) ==
    answer.failed

\* CheckForUpdate(currentVersion, channel) at time t: the notification and error it
\* returns, the calls it makes to the release source, the cache file it leaves
\* and the number of times it calls saveUpdateCache. readOk, answer and saved are
\* what the environment does: whether the cache file can be read, what the
\* release source returns, what becomes of the cache write.
CheckForUpdateResult(file, t, interval, currentVersion, channel, readOk, answer, saved) ==
    LET cache == getCachedUpdate(file, readOk)
        current == Parsed[currentVersion]
        query == FetchLatest(determineChannel(current, channel))
        latest == Parsed[answer.release.TagName]
        available == UpdateIsAvailable(latest, current)
        isPreRelease == available /\ answer.release.Prerelease
        releaseURL == IF available THEN GetReleaseURL(answer.release.TagName) ELSE <<>>
    IN IF ~cache.isNil /\ ~shouldCheckForUpdate(cache, t, interval)
       THEN [notif |-> NotificationFromCache(cache), err |-> NoErr, queries |-> <<>>,
             file |-> file, writes |-> 0]
       ELSE IF ~current.ok
       THEN [notif |-> UpdateNotification(FALSE, <<>>, <<>>, FALSE, <<>>), err |-> NoErr,
             queries |-> <<>>, file |-> file, writes |-> 0]
       ELSE IF FetchFailed(answer)
       THEN [notif |-> NilNotification, err |-> <<"failed to fetch latest release">>,
             queries |-> <<query>>, file |-> file, writes |-> 0]
       ELSE IF TagParseFailed(latest)
       THEN [notif |-> NilNotification, err |-> <<"failed to parse latest version">>,
             queries |-> <<query>>, file |-> file, writes |-> 0]
       ELSE [notif |-> UpdateNotification(available, String(current), String(latest),
                                          isPreRelease, releaseURL),
             err |-> saveUpdateCacheError(saved),
             queries |-> <<query>>,
             file |-> saveUpdateCache(file,
                          UpdateCache(t, available, String(current), String(latest),
                                      isPreRelease, releaseURL, FALSE),
                          saved),
             writes |-> 1]

-----------------------------------------------------------------------------
(* GetUpdateInfo and the selection of the release asset *)

\* strings.Contains(s, substr)
Contains(s, substr) ==
    \E i \in 1..(Len(s) - Len(substr) + 1) :
        SubSeq(s, i, i + Len(substr) - 1) = substr

\* strings.HasSuffix(s, suffix)
HasSuffix(s, suffix) ==
    /\ Len(s) >= Len(suffix)
    /\ SubSeq(s, Len(s) - Len(suffix) + 1, Len(s)) = suffix

Ext_tar_gz ==
    <<".", "t", "a", "r", ".", "g", "z">>

Ext_zip ==
    <<".", "z", "i", "p">>

\* whether an asset name is that of an archive
IsArchive(name) ==
    HasSuffix(name, Ext_tar_gz) \/ HasSuffix(name, Ext_zip)

N_linux_x86_64 ==
    <<"t", "a", "s", "k", "l", "o", "g", "_", "l", "i", "n", "u", "x", "_", "x", "8", "6", "_", "6", "4">>

N_linux_arm64 ==
    <<"t", "a", "s", "k", "l", "o", "g", "_", "l", "i", "n", "u", "x", "_", "a", "r", "m", "6", "4">>

N_darwin_arm64 ==
    <<"t", "a", "s", "k", "l", "o", "g", "_", "d", "a", "r", "w", "i", "n", "_", "a", "r", "m", "6", "4">>

\* github.Asset{Name, BrowserDownloadURL}
Asset(name, url) ==
    [Name |-> name, BrowserDownloadURL |-> url]

\* the asset lists of the releases that have assets: a bare binary behind or
\* before its archive, a list for other platforms, and an asset whose JSON has no
\* browser_download_url
AssetLists ==
    {<<Asset(N_linux_x86_64 \o Ext_tar_gz, "https://dl/linux_x86_64.tar.gz"),
       Asset(N_linux_x86_64, "https://dl/linux_x86_64")>>,
     <<Asset(N_linux_x86_64, "https://dl/linux_x86_64"),
       Asset(N_linux_x86_64 \o Ext_zip, "https://dl/linux_x86_64.zip")>>,
     <<Asset(N_darwin_arm64 \o Ext_tar_gz, "https://dl/darwin_arm64.tar.gz"),
       Asset(N_linux_arm64, "https://dl/linux_arm64"),
       Asset(N_darwin_arm64, "https://dl/darwin_arm64")>>,
     <<Asset(N_linux_x86_64 \o Ext_zip, ""),
       Asset(N_linux_x86_64, "https://dl/linux_x86_64")>>}

\* the index of the first asset from i on whose name contains assetName, 0 when
\* there is none
RECURSIVE FirstMatch(_, _, _)
FirstMatch(assets, assetName, i) ==
    IF i > Len(assets) THEN 0
    ELSE IF Contains(assets[i].Name, assetName) THEN i
    ELSE FirstMatch(assets, assetName, i + 1)

\* the index of the last asset up to i whose name contains assetName, 0 when there
\* is none
RECURSIVE LastMatch(_, _, _)
LastMatch(assets, assetName, i) ==
    IF i = 0 THEN 0
    ELSE IF Contains(assets[i].Name, assetName) THEN i
    ELSE LastMatch(assets, assetName, i - 1)

\* mutant: the loop does not stop at the first match
SelectLastAsset(assets, assetName) ==
    LET i == LastMatch(assets, assetName, Len(assets))
    IN IF i = 0 THEN [downloadURL |-> "", actualAssetName |-> <<>>]
       ELSE [downloadURL |-> assets[i].BrowserDownloadURL,
             actualAssetName |-> assets[i].Name]

\* the loop over release.Assets: downloadURL and actualAssetName after it
SelectAsset(assets, assetName) ==
    LET i == FirstMatch(assets, assetName, 1)
    IN IF i = 0 THEN [downloadURL |-> "", actualAssetName |-> <<>>]
       ELSE [downloadURL |-> assets[i].BrowserDownloadURL,
             actualAssetName |-> assets[i].Name]

\* mutant: an asset was found when a name matched
NoBinaryFoundByName(selected) ==
    selected.actualAssetName = <<>>

\* whether no binary was found: downloadURL == ""
NoBinaryFound(selected) ==
    selected.downloadURL = ""

NilInfo ==
    [isNil |-> TRUE, CurrentVersion |-> <<>>, LatestVersion |-> <<>>, ReleaseURL |-> <<>>,
     ReleaseNotes |-> "", DownloadURL |-> "", AssetName |-> <<>>, IsPreRelease |-> FALSE]

\* &UpdateInfo{...}
UpdateInfo(currentVersion, latestVersion, releaseURL, releaseNotes, downloadURL, assetName, isPreRelease) ==
    [isNil |-> FALSE, CurrentVersion |-> currentVersion, LatestVersion |-> latestVersion,
     ReleaseURL |-> releaseURL, ReleaseNotes |-> releaseNotes,
     DownloadURL |-> downloadURL, AssetName |-> assetName, IsPreRelease |-> isPreRelease]

\* GetUpdateInfo(currentVersion, channel) at time t: the UpdateInfo and error it
\* returns, the calls it makes to the release source and the cache entries it
\* hands to saveUpdateCache. answer is what the release source returns.
GetUpdateInfoResult(t, currentVersion, channel, answer) ==
    LET current == Parsed[currentVersion]
        query == FetchLatest(determineChannel(current, channel))
        latest == Parsed[answer.release.TagName]
        releaseURL == GetReleaseURL(answer.release.TagName)
        selected == SelectAsset(answer.release.Assets, getAssetNameForPlatform)
    IN IF ~current.ok
       THEN [info |-> NilInfo, err |-> NoErr, queries |-> <<>>, saves |-> <<>>]
       ELSE IF FetchFailed(answer)
       THEN [info |-> NilInfo, err |-> <<"failed to fetch latest release">>,
             queries |-> <<query>>, saves |-> <<>>]
       ELSE IF TagParseFailed(latest)
       THEN [info |-> NilInfo, err |-> <<"failed to parse latest version">>,
             queries |-> <<query>>, saves |-> <<>>]
       ELSE IF ~UpdateIsAvailable(latest, current)
       THEN [info |-> NilInfo, err |-> NoErr, queries |-> <<query>>, saves |-> <<>>]
       ELSE IF NoBinaryFound(selected)
       THEN [info |-> NilInfo,
             err |-> <<"no binary found for platform", goos \o <<"/">> \o goarch>>,
             queries |-> <<query>>, saves |-> <<>>]
       ELSE [info |-> UpdateInfo(String(current), String(latest), releaseURL,
                                 answer.release.Body, selected.downloadURL,
                                 selected.actualAssetName, answer.release.Prerelease),
             err |-> NoErr,
             queries |-> <<query>>,
             saves |-> <<UpdateCache(t, TRUE, String(current), String(latest),
                                     answer.release.Prerelease, releaseURL, FALSE)>>]

\* the answer of a release source that is not asked
NoAnswer ==
    [failed |-> TRUE,
     release |-> [TagName |-> <<>>, Prerelease |-> FALSE, Body |-> "", Assets |-> <<>>]]

NoLast ==
    [op |-> "none", seq |-> 0, at |-> 0, currentVersion |-> <<>>, channel |-> <<>>,
     readOk |-> FALSE, notif |-> NilNotification, err |-> NoErr, queries |-> <<>>,
     writes |-> 0, shouldCheck |-> FALSE, cacheWas |-> "absent", afterMiss |-> FALSE,
     answer |-> NoAnswer, written |-> FALSE, effective |-> <<>>, hint |-> <<>>,
     info |-> NilInfo, intervalText |-> "", other |-> <<>>, newer |-> FALSE,
     older |-> FALSE, example |-> EmptyMap, userConfigData |-> MalformedYAML,
     result |-> NilResult]

\* the answers the release source may give to the call, if the call asks it
AnswersTo(file, t, interval, currentVersion, channel, readOk) ==
    IF CheckForUpdateResult(file, t, interval, currentVersion, channel, readOk,
                            NoAnswer, "ok").queries = <<>>
    THEN {NoAnswer}
    ELSE ReleaseAnswers

\* whether a call CheckForUpdate(currentVersion, _) made now is the second of two
\* successive calls with the same parseable version, the first of which started
\* with no cache file and returned no error at most the check interval ago
AfterMiss(currentVersion) ==
    /\ last.op = "CheckForUpdate"
    /\ last.cacheWas = "absent"
    /\ last.err = NoErr
    /\ last.currentVersion = currentVersion
    /\ Parsed[currentVersion].ok
    /\ now - last.at <= checkInterval

\* a call CheckForUpdate(currentVersion, channel); saved is what becomes of the
\* cache write, if the call writes the cache
CheckForUpdate ==
    /\ \E currentVersion \in CurrentVersions, channel \in ConfigChannels,
          readOk \in ReadOutcomes(cacheFile) :
        \E answer \in AnswersTo(cacheFile, now, checkInterval, currentVersion, channel,
                                readOk) :
        \E written \in {CheckForUpdateResult(cacheFile, now, checkInterval,
                                            currentVersion, channel, readOk, answer,
                                            "ok")} :
        \E saved \in IF written.writes = 0 THEN {"ok"} ELSE SaveOutcomes :
        \E r \in {IF saved = "ok" THEN written
                  ELSE CheckForUpdateResult(cacheFile, now, checkInterval, currentVersion,
                                            channel, readOk, answer, saved)} :
           /\ last' = [op |-> "CheckForUpdate", seq |-> 1 - last.seq, at |-> now,
                       currentVersion |-> currentVersion, channel |-> channel,
                       readOk |-> readOk, notif |-> r.notif, err |-> r.err,
                       queries |-> r.queries, writes |-> r.writes,
                       shouldCheck |-> FALSE, cacheWas |-> cacheFile.state,
                       afterMiss |-> AfterMiss(currentVersion),
                       answer |-> answer,
                       written |-> r.writes > 0 /\ saved = "ok",
                       effective |-> <<>>, hint |-> <<>>, info |-> NilInfo,
                       intervalText |-> "", other |-> <<>>, newer |-> FALSE,
                       older |-> FALSE, example |-> EmptyMap,
                       userConfigData |-> MalformedYAML, result |-> NilResult]
           /\ cacheFile' = r.file
    /\ UNCHANGED <<now, checkInterval, installVars, hostVars>>

\* a call shouldCheckForUpdate(cache) with the cached entry or with nil, as
\* the package's tests make it
ShouldCheckForUpdate ==
    /\ \E readOk \in BOOLEAN :
        LET cache == getCachedUpdate(cacheFile, readOk)
        IN last' = [NoLast EXCEPT !.op = "shouldCheckForUpdate", !.seq = 1 - last.seq,
                                  !.at = now, !.readOk = readOk,
                                  !.cacheWas = cacheFile.state,
                                  !.shouldCheck =
                                      shouldCheckForUpdate(cache, now, checkInterval)]
    /\ UNCHANGED <<now, cacheFile, checkInterval, installVars, hostVars>>

\* the answers the release source may give to a call of GetUpdateInfo, if the call
\* asks it: an error, or a release, with each of the asset lists if the call gets
\* as far as the assets
InfoAnswersTo(t, currentVersion, channel) ==
    IF GetUpdateInfoResult(t, currentVersion, channel, NoAnswer).queries = <<>>
    THEN {NoAnswer}
    ELSE ReleaseAnswers
            \cup {[failed |-> FALSE, release |-> [r EXCEPT !.Assets = assets]] :
                    r \in {rel \in Releases :
                            Mentions(GetUpdateInfoResult(t, currentVersion, channel,
                                        [failed |-> FALSE, release |-> rel]).err,
                                     "no binary found for platform")},
                    assets \in AssetLists}

\* a call GetUpdateInfo(currentVersion, channel); saved is what becomes of the
\* cache write, if the call writes the cache
GetUpdateInfo ==
    /\ \E currentVersion \in InfoVersions, channel \in ConfigChannels :
        \E answer \in InfoAnswersTo(now, currentVersion, channel) :
        \E r \in {GetUpdateInfoResult(now, currentVersion, channel, answer)} :
        \E saved \in IF r.saves = <<>> THEN {"ok"} ELSE SaveOutcomes :
           /\ last' = [NoLast EXCEPT !.op = "GetUpdateInfo", !.seq = 1 - last.seq,
                                     !.at = now, !.currentVersion = currentVersion,
                                     !.channel = channel, !.info = r.info,
                                     !.err = IF r.saves = <<>> THEN r.err
                                             ELSE saveUpdateCacheError(saved),
                                     !.queries = r.queries,
                                     !.writes = Len(r.saves),
                                     !.answer = answer,
                                     !.written = r.saves # <<>> /\ saved = "ok"]
           /\ cacheFile' = IF r.saves = <<>> THEN cacheFile
                           ELSE saveUpdateCache(cacheFile, r.saves[1], saved)
    /\ UNCHANGED <<now, checkInterval, installVars, hostVars>>

\* a call determineChannel(version, configChannel) on a version that parses, as
\* TestDetermineChannel makes it
DetermineChannel ==
    /\ \E text \in ChannelVersions, configChannel \in ChannelStrings :
        /\ Parsed[text].ok
        /\ last' = [NoLast EXCEPT !.op = "determineChannel", !.seq = 1 - last.seq,
                                  !.at = now, !.currentVersion = text,
                                  !.channel = configChannel,
                                  !.effective = determineChannel(Parsed[text],
                                                                 configChannel)]
    /\ UNCHANGED <<now, cacheFile, checkInterval, installVars, hostVars>>

\* a call getAssetNameForPlatform(), as TestGetAssetNameForPlatform makes it
GetAssetNameForPlatform ==
    /\ last' = [NoLast EXCEPT !.op = "getAssetNameForPlatform", !.seq = 1 - last.seq,
                              !.at = now, !.hint = getAssetNameForPlatform]
    /\ UNCHANGED <<now, cacheFile, checkInterval, installVars, hostVars>>

\* the tool is started again and constructs its Updater: NewUpdater(owner, repo,
\* cacheDir, checkInterval) with the configured duration string
NewUpdaterCalled ==
    /\ \E text \in DurationStrings :
        /\ checkInterval' = NewUpdater(text)
        /\ last' = [NoLast EXCEPT !.op = "NewUpdater", !.seq = 1 - last.seq, !.at = now,
                                  !.intervalText = text]
    /\ UNCHANGED <<now, cacheFile, installVars, hostVars>>

\* two versions are parsed and compared, as CheckForUpdate compares the latest
\* release with the running version, in both directions
CompareVersions ==
    /\ \E a \in OrderVersions, b \in OrderVersions :
        last' = [NoLast EXCEPT !.op = "IsNewerThan", !.seq = 1 - last.seq, !.at = now,
                               !.currentVersion = a, !.other = b,
                               !.newer = UpdateIsAvailable(Parsed[a], Parsed[b]),
                               !.older = UpdateIsAvailable(Parsed[b], Parsed[a])]
    /\ UNCHANGED <<now, cacheFile, checkInterval, installVars, hostVars>>

\* a call CompareWithExample(userConfigData), as the config command makes it with
\* the bytes of the user's file
CompareWithExample ==
    /\ \E userConfigData \in UserConfigData :
        \E r \in {CompareWithExampleResult(userConfigData, last.example)} :
            last' = [NoLast EXCEPT !.op = "CompareWithExample", !.at = now,
                                   !.example = last.example,
                                   !.userConfigData = userConfigData,
                                   !.result = r.result, !.err = r.err]
    /\ UNCHANGED <<now, cacheFile, checkInterval, installVars, hostVars>>

\* time passes
Tick ==
    /\ now + TickHours <= MaxTime
    /\ now' = now + TickHours
    /\ UNCHANGED <<cacheFile, checkInterval, last, installVars, hostVars>>

-----------------------------------------------------------------------------

\* the installer at rest, before any upgrade
InstallerAtRest ==
    /\ fs = [p \in Paths |->
                IF p = BinaryPath THEN [content |-> OldBin, mode |-> "0755"] ELSE NoFile]
    /\ pc = "idle"
    /\ call = NoCall
    /\ ret = NoRet
    /\ pre = fs
    /\ ops = {}
    /\ off = 0

\* the checker after NewUpdater, before any check
CheckerAtRest ==
    /\ now = 0
    /\ cacheFile = AbsentFile
    /\ last = NoLast

\* a binary built for linux/amd64
HostLinuxAmd64 ==
    /\ goos = S_linux
    /\ goarch = S_amd64

InitInstall ==
    /\ InstallerAtRest
    /\ tmpSameFs \in BOOLEAN
    /\ CheckerAtRest
    /\ checkInterval = NewUpdater("24h")
    /\ HostLinuxAmd64

NextInstall ==
    \/ DownloadAndReplace
    \/ StepExecutable
    \/ StepEvalSymlinks
    \/ StepCheckWritePermission
    \/ StepCreateTemp
    \/ StepDownloadRequest
    \/ StepDownloadBody
    \/ StepVerifyCreateTemp
    \/ StepVerifyRequest
    \/ StepVerifyBody
    \/ StepVerifyRead
    \/ StepVerifyHash
    \/ StepVerifyCompare
    \/ StepChmod
    \/ StepCopyOpen
    \/ StepCopyCreate
    \/ StepCopyIO
    \/ StepCopyStat
    \/ StepCopyChmod
    \/ StepRename
    \/ PerformUpgradeCancelled
    \/ PerformUpgradeConfirmed
    \/ RollbackUpgrade

SpecInstall ==
    InitInstall /\ [][NextInstall]_vars

InitCheck ==
    /\ InstallerAtRest
    /\ tmpSameFs = TRUE
    /\ CheckerAtRest
    /\ \E text \in IntervalStrings : checkInterval = NewUpdater(text)
    /\ HostLinuxAmd64

NextCheck ==
    \/ CheckForUpdate
    \/ GetUpdateInfo
    \/ ShouldCheckForUpdate
    \/ Tick

SpecCheck ==
    InitCheck /\ [][NextCheck]_vars

InitInfo ==
    /\ InstallerAtRest
    /\ tmpSameFs = TRUE
    /\ CheckerAtRest
    /\ checkInterval = NewUpdater("24h")
    /\ goos \in GOOSes
    /\ goarch \in GOARCHes

NextInfo ==
    \/ GetUpdateInfo
    \/ DetermineChannel
    \/ GetAssetNameForPlatform
    \/ NewUpdaterCalled

SpecInfo ==
    InitInfo /\ [][NextInfo]_vars

InitVersion ==
    /\ InstallerAtRest
    /\ tmpSameFs = TRUE
    /\ CheckerAtRest
    /\ checkInterval = NewUpdater("24h")
    /\ HostLinuxAmd64

NextVersion ==
    CompareVersions

SpecVersion ==
    InitVersion /\ [][NextVersion]_vars

\* the example configuration is the one of the build, whatever it is
InitConfig ==
    /\ InstallerAtRest
    /\ tmpSameFs = TRUE
    /\ now = 0
    /\ cacheFile = AbsentFile
    /\ \E example \in ExampleConfigs : last = [NoLast EXCEPT !.example = example]
    /\ checkInterval = NewUpdater("24h")
    /\ HostLinuxAmd64

NextConfig ==
    CompareWithExample

SpecConfig ==
    InitConfig /\ [][NextConfig]_vars

-----------------------------------------------------------------------------
(* Properties of the installer, checked under SpecInstall *)

\* downloadAndReplace has returned (called directly or through PerformUpgrade)
Returned ==
    /\ pc = "idle"
    /\ call.confirm
    /\ ret.op \in {"downloadAndReplace", "PerformUpgrade"}

\* a call of downloadAndReplace is in flight
InFlight ==
    pc # "idle"

LiveFile ==
    fs[BinaryPath]

BackupFile ==
    fs[BackupPathOf(BinaryPath)]

\* C1: whenever downloadAndReplace returns a non-nil error, whichever step
\* failed, the content of the live executable equals its content before the call.
C1_ErrorLeavesLiveUnchanged ==
    (Returned /\ ret.err # NoErr) => LiveFile.content = pre[BinaryPath].content

\* C1 witness: the call failed while the backup was half written, after an
\* earlier upgrade had already replaced the first binary
C1_Witness ==
    /\ Returned
    /\ Mentions(ret.err, "failed to create backup")
    /\ "write backup" \in ops
    /\ BackupFile.content # LiveFile.content
    /\ LiveFile.content # OldBin

\* C2: in every intermediate state of downloadAndReplace the live path holds the
\* complete pre-upgrade binary or the complete downloaded binary; the download
\* writes to the temporary file only; the live path changes only in the rename step.
C2_LiveNeverPartial ==
    [][InFlight =>
        /\ LiveFile.content = pre[BinaryPath].content
        /\ LiveFile'.content \in {pre[BinaryPath].content, Remote[call.downloadURL]}
        /\ (pc = "downloadBody" =>
                \A p \in Paths \ {TmpPath} : fs'[p] = fs[p])
        /\ (LiveFile' # LiveFile => pc = "rename" /\ "rename" \in ops')]_vars

\* C2 witness: a download has started and is unfinished
C2_Witness ==
    /\ pc = "downloadBody"
    /\ 0 < off
    /\ off < Len(Remote[call.downloadURL])
    /\ fs[TmpPath].content # Remote[call.downloadURL]

\* C3: the rename is attempted only after copyFile has completed; so whenever the
\* live content differs from the pre-upgrade binary, the backup exists and has the
\* content and the mode of the pre-upgrade binary.
C3_BackupBeforeSwap ==
    (call.op \in {"downloadAndReplace", "PerformUpgrade"}) =>
        /\ (pc = "rename" \/ "rename" \in ops \/ "rename failed" \in ops) =>
                /\ "chmod backup" \in ops
                /\ BackupFile = pre[BinaryPath]
        /\ (LiveFile.content # pre[BinaryPath].content) =>
                /\ Exists(BackupFile)
                /\ BackupFile.content = pre[BinaryPath].content
                /\ BackupFile.mode = pre[BinaryPath].mode

\* C3 witness: the swap happened, over a backup left by an earlier upgrade
C3_Witness ==
    /\ Returned
    /\ ret.err = NoErr
    /\ LiveFile.content # pre[BinaryPath].content
    /\ Exists(pre[BackupPathOf(BinaryPath)])
    /\ pre[BackupPathOf(BinaryPath)].content # pre[BinaryPath].content

\* C4: if the final rename fails after the backup was made, the call returns a
\* non-empty backup path with a non-nil error, the live executable still has its
\* pre-upgrade bytes and the returned path names an existing file with the
\* pre-upgrade content; on every other error path the backup path is empty.
C4_BackupPathOnFailedRename ==
    Returned =>
        /\ ("rename failed" \in ops) =>
                /\ ret.backupPath # ""
                /\ ret.err # NoErr
                /\ LiveFile.content = pre[BinaryPath].content
                /\ Exists(FileAt(fs, ret.backupPath))
                /\ FileAt(fs, ret.backupPath).content = pre[BinaryPath].content
        /\ (ret.err # NoErr /\ "rename failed" \notin ops) => ret.backupPath = ""

\* C4 witness: the rename failed on a temp directory of the same filesystem
C4_Witness ==
    /\ Returned
    /\ "rename failed" \in ops
    /\ tmpSameFs
    /\ ret.backupPath = BackupPathOf(BinaryPath)

\* C5: with a checksum URL, when the digest of the downloaded temp file differs
\* from the downloaded expected digest, the call returns an error mentioning a
\* checksum mismatch, the temp file is not renamed onto the live path, no backup
\* is created and the live executable is unchanged.
C5_ChecksumMismatch ==
    [][(/\ pc = "verifyCompare"
        /\ call.checksumURL # ""
        /\ Sha256Hex(fs[TmpPath].content) # TrimSpace(fs[ChecksumTmpPath].content))
       =>
       (/\ pc' = "idle"
        /\ Mentions(ret'.err, "checksum mismatch")
        /\ ret'.backupPath = ""
        /\ ops' \cap {"rename", "rename failed", "create backup", "write backup"} = {}
        /\ fs'[BackupPathOf(BinaryPath)] = pre[BackupPathOf(BinaryPath)]
        /\ fs'[BinaryPath] = pre[BinaryPath])]_vars

\* C5 witness: a mismatch was reported for a fully downloaded asset
C5_Witness ==
    /\ Returned
    /\ call.checksumURL # ""
    /\ Mentions(ret.err, "checksum mismatch")
    /\ "write download" \in ops
    /\ "write checksum" \in ops

\* C6: when confirm answers no, PerformUpgrade returns an empty backup path and
\* the error "upgrade cancelled by user", and does nothing to the filesystem or
\* the network: no temp file, no sentinel, no backup, no download.
C6_CancelTouchesNothing ==
    (pc = "idle" /\ call.op = "PerformUpgrade" /\ ~call.confirm) =>
        /\ ret.op = "PerformUpgrade"
        /\ ret.backupPath = ""
        /\ Mentions(ret.err, "upgrade cancelled by user")
        /\ ops = {}
        /\ fs = pre

\* C6 witness: an upgrade was declined on a machine that had upgraded before
C6_Witness ==
    /\ pc = "idle"
    /\ call.op = "PerformUpgrade"
    /\ ~call.confirm
    /\ ret.err # NoErr
    /\ Exists(BackupFile)

\* RollbackUpgrade has returned
RolledBack ==
    /\ pc = "idle"
    /\ call.op = "RollbackUpgrade"
    /\ ret.op = "RollbackUpgrade"

\* C22: RollbackUpgrade(backupPath) renames the backup onto the resolved live
\* path: on success the live path holds exactly what the backup held and the
\* backup path no longer exists; if the backup file is missing or the rename fails
\* it returns a non-nil error and the live executable is unchanged.
C22_RollbackRestoresBackup ==
    RolledBack =>
        /\ ret.err = NoErr =>
                /\ Exists(FileAt(pre, call.backupPath))
                /\ LiveFile = FileAt(pre, call.backupPath)
                /\ ~Exists(FileAt(fs, call.backupPath))
        /\ ~Exists(FileAt(pre, call.backupPath)) => ret.err # NoErr
        /\ ret.err # NoErr => LiveFile = pre[BinaryPath]

\* C22 witness: a rollback after a completed upgrade brought the first binary back
C22_Witness ==
    /\ RolledBack
    /\ ret.err = NoErr
    /\ pre[BinaryPath].content \in {Remote[u] : u \in DownloadURLs}
    /\ LiveFile.content = OldBin
    /\ LiveFile.mode = "0755"
    /\ ~Exists(BackupFile)

\* the sentinel file of checkWritePermission
SentinelFile ==
    fs[TestFilePath(BinaryPath)]

\* C23: if the write-permission probe on the directory of the live executable
\* fails, downloadAndReplace returns an empty backup path and an error before it
\* creates a temp file, downloads anything or creates a backup; and after every
\* checkWritePermission that succeeds, the sentinel file it created in the target
\* directory no longer exists.
C23_ProbeFailsFast ==
    [][pc = "checkWritePermission" =>
        /\ pc' = "idle" =>
                /\ ret'.backupPath = ""
                /\ Mentions(ret'.err, "insufficient permissions to update binary")
                /\ ops' \cap {"create tmp", "GET asset", "write download",
                              "GET checksum", "create backup", "write backup",
                              "rename", "rename failed"} = {}
                /\ fs' = pre
        /\ pc' # "idle" =>
                /\ pc' = "createTemp"
                /\ "create sentinel" \in ops'
                /\ ~Exists(SentinelFile')
                /\ fs' = pre]_vars

\* C23 witness: the probe failed on a machine where an earlier upgrade, whose
\* probe succeeded, had replaced the first binary
C23_Witness ==
    /\ Returned
    /\ Mentions(ret.err, "insufficient permissions to update binary")
    /\ LiveFile.content # OldBin
    /\ Exists(BackupFile)
    /\ ~Exists(SentinelFile)

\* the positions of downloadAndReplace inside verifyChecksum, after its temp file
\* was created
InVerifyChecksum ==
    pc \in {"verifyRequest", "verifyBody", "verifyRead", "verifyHash", "verifyCompare"}

\* C24: on every exit path of downloadAndReplace taken after the temp file was
\* created (download, checksum, chmod, backup or rename failure, success), no file
\* exists at the temp path when the call returns; and the checksum temp file of
\* verifyChecksum does not exist once verifyChecksum has returned.
C24_TempFilesRemoved ==
    /\ (Returned /\ "create tmp" \in ops) =>
            /\ ~Exists(fs[TmpPath])
            /\ "remove tmp" \in ops
    /\ ~InVerifyChecksum => ~Exists(fs[ChecksumTmpPath])
    /\ (~InVerifyChecksum /\ "create checksum tmp" \in ops) =>
            "remove checksum tmp" \in ops

\* C24 witness: the rename failed after the checksum had been verified and the
\* backup made, and both temp files are gone
C24_Witness ==
    /\ Returned
    /\ "rename failed" \in ops
    /\ "write checksum" \in ops
    /\ "chmod backup" \in ops
    /\ ~Exists(fs[TmpPath])
    /\ ~Exists(fs[ChecksumTmpPath])

\* C31: in downloadAndReplace the temporary download file is created on the
\* filesystem of the live executable, so the final rename of the temp file onto
\* the live path is a rename within one filesystem and cannot fail for crossing a
\* filesystem boundary.
C31_TempOnLiveFilesystem ==
    (call.op \in {"downloadAndReplace", "PerformUpgrade"} /\ "create tmp" \in ops) =>
        tmpSameFs

\* C32: every binary PerformUpgrade promotes onto the live path has passed the
\* checksum verification against a published digest: after a positive
\* confirmation PerformUpgrade runs the whole install sequence, the checksum step
\* included.
C32_UpgradeVerifiesChecksum ==
    (call.op = "PerformUpgrade" /\ call.confirm /\ "rename" \in ops) =>
        /\ call.checksumURL # ""
        /\ "GET checksum" \in ops
        /\ "remove checksum tmp" \in ops

\* the positions of downloadAndReplace inside verifyChecksum
VerifyPositions ==
    {"verifyCreateTemp"} \cup
        {"verifyRequest", "verifyBody", "verifyRead", "verifyHash", "verifyCompare"}

\* the checksum text downloaded, trimmed, is the digest of the downloaded file
DigestEqualsTrimmedText ==
    Sha256Hex(fs[TmpPath].content) = TrimSpace(fs[ChecksumTmpPath].content)

\* C33 as stated: verifyChecksum returns nil if and only if the downloaded
\* checksum text, its leading and trailing whitespace trimmed, is exactly the
\* lower-case hexadecimal SHA-256 digest of the file; if the download of the
\* checksum fails it returns an error without comparing anything; it never
\* modifies the file it verifies.
C33_NilIffDigestEqual ==
    [][(pc \in VerifyPositions /\ call.checksumURL # "" /\ pc' \notin VerifyPositions) =>
        /\ IF pc \in {"verifyRequest", "verifyBody"}
           THEN /\ pc' = "idle"
                /\ Mentions(ret'.err, "failed to download checksum")
           ELSE (pc' = "chmod") <=> DigestEqualsTrimmedText
        /\ pc' # "idle" => fs'[TmpPath] = fs[TmpPath]]_vars

\* C33 as amended: verifyChecksum returns nil only if the trimmed checksum text
\* is exactly the digest, and, once it has downloaded the text and read both
\* files, exactly if it is; a failure to create the temp file, to download the
\* checksum, or to read either file returns an error without comparing anything;
\* it never modifies the file it verifies.
C33_VerifyChecksumExact ==
    [][(pc \in VerifyPositions /\ call.checksumURL # "") =>
        /\ pc' = "chmod" => (pc = "verifyCompare" /\ DigestEqualsTrimmedText)
        /\ pc = "verifyCompare" =>
                /\ (pc' = "chmod") <=> DigestEqualsTrimmedText
                /\ (pc' # "chmod") =>
                        (pc' = "idle" /\ Mentions(ret'.err, "checksum mismatch"))
                /\ (pc' = "chmod") <=>
                        (call.checksumURL = "https://dl/sum_1.1.0"
                            /\ call.downloadURL = "https://dl/tasklog_1.1.0")
        /\ (pc \in {"verifyRequest", "verifyBody"} /\ pc' = "idle") =>
                /\ Mentions(ret'.err, "failed to download checksum")
                /\ ~Mentions(ret'.err, "checksum mismatch")
        /\ pc' # "idle" => fs'[TmpPath] = fs[TmpPath]
        /\ pc' = "idle" => ret'.err # NoErr]_vars

\* C33 witness: a checksum text that ends with a newline was accepted for the
\* asset it belongs to
C33_Witness ==
    /\ pc = "chmod"
    /\ call.checksumURL = "https://dl/sum_1.1.0"
    /\ Remote[call.checksumURL] # TrimSpace(Remote[call.checksumURL])
    /\ "write checksum" \in ops
    /\ "remove checksum tmp" \in ops
    /\ fs[TmpPath].content = Remote["https://dl/tasklog_1.1.0"]

\* downloadAndReplace has returned without error
Upgraded ==
    Returned /\ ret.err = NoErr

\* the step is a call RollbackUpgrade(backupPath) that returned no error
RollbackSucceeds(backupPath) ==
    /\ pc = "idle"
    /\ pc' = "idle"
    /\ call'.op = "RollbackUpgrade"
    /\ call'.backupPath = backupPath
    /\ ret'.err = NoErr

\* C36: the backup is a single slot at <live path>.backup: after every successful
\* downloadAndReplace the backup is the live binary as it was right before that
\* call, so after two successive upgrades B0 to B1 to B2 the backup holds B1, B0
\* is nowhere to be recovered from, and a rollback after the second upgrade
\* restores B1.
C36_BackupIsSingleSlot ==
    [][Upgraded =>
        /\ ret.backupPath = BackupPathOf(BinaryPath)
        /\ BackupFile.content = pre[BinaryPath].content
        /\ LiveFile.content = Remote[call.downloadURL]
        /\ pre[BinaryPath].content # OldBin =>
                \A p \in Paths : fs[p].content # OldBin
        /\ RollbackSucceeds(ret.backupPath) =>
                LiveFile'.content = pre[BinaryPath].content]_vars

\* C36 witness: the second of two successive upgrades has returned: the live
\* binary is B2, the backup B1, and the backup it replaced was B0
C36_Witness ==
    /\ Upgraded
    /\ pre[BinaryPath].content = Remote["https://dl/tasklog_1.1.0"]
    /\ pre[BackupPathOf(BinaryPath)].content = OldBin
    /\ LiveFile.content = Remote["https://dl/tasklog_1.2.0"]
    /\ BackupFile.content = Remote["https://dl/tasklog_1.1.0"]

\* C37: a successful PerformUpgrade followed by RollbackUpgrade with the backup
\* path it returned restores the live executable to its content and permission
\* mode of before the upgrade; the rollback uses the backup up, so a second
\* RollbackUpgrade with the same path returns an error and leaves the live
\* executable as it is.
C37_UpgradeThenRollback ==
    [][/\ (Upgraded /\ ret.op = "PerformUpgrade" /\ RollbackSucceeds(ret.backupPath)) =>
            /\ LiveFile'.content = pre[BinaryPath].content
            /\ LiveFile'.mode = pre[BinaryPath].mode
            /\ ~Exists(BackupFile')
       /\ (/\ RolledBack
           /\ ret.err = NoErr
           /\ pc' = "idle"
           /\ call'.op = "RollbackUpgrade"
           /\ call'.backupPath = call.backupPath) =>
            /\ ret'.err # NoErr
            /\ LiveFile' = LiveFile]_vars

\* C37 witness: two upgrades and a rollback have made the second binary the
\* live one again and used the backup up, and a further rollback with the same
\* path has failed and left it so
C37_Witness ==
    /\ RolledBack
    /\ call.backupPath = BackupPathOf(BinaryPath)
    /\ Mentions(ret.err, "rollback failed")
    /\ ~Exists(pre[BackupPathOf(BinaryPath)])
    /\ LiveFile = [content |-> Remote["https://dl/tasklog_1.1.0"], mode |-> "0755"]
    /\ pre = fs

-----------------------------------------------------------------------------
(* Properties of the checker, checked under SpecCheck *)

\* the step is a call of CheckForUpdate
CheckForUpdateCalled ==
    last'.seq # last.seq /\ last'.op = "CheckForUpdate"

\* C7: a CheckForUpdate called while a readable cache entry exists whose age does
\* not exceed the check interval asks the release source nothing, does not write
\* the cache, returns no error, and returns the cached UpdateAvailable,
\* CurrentVersion, LatestVersion, IsPreRelease and ReleaseURL.
C7_FreshCacheServed ==
    [][(/\ CheckForUpdateCalled
        /\ last'.readOk
        /\ cacheFile.state = "json"
        /\ now - cacheFile.json.last_check <= checkInterval)
       =>
       (/\ last'.queries = <<>>
        /\ last'.writes = 0
        /\ cacheFile' = cacheFile
        /\ last'.err = NoErr
        /\ ~last'.notif.isNil
        /\ last'.notif.Available = cacheFile.json.update_available
        /\ last'.notif.CurrentVersion = cacheFile.json.current_version
        /\ last'.notif.LatestVersion = cacheFile.json.latest_version
        /\ last'.notif.IsPreRelease = cacheFile.json.is_prerelease
        /\ last'.notif.ReleaseURL = cacheFile.json.release_url)]_vars

\* C7 witness: a cached pre-release update was served at exactly the interval
\* boundary, to a binary of another version than the cached one
C7_Witness ==
    /\ last.op = "CheckForUpdate"
    /\ last.readOk
    /\ last.queries = <<>>
    /\ cacheFile.state = "json"
    /\ last.at - cacheFile.json.last_check = checkInterval
    /\ last.notif.Available
    /\ last.notif.IsPreRelease
    /\ last.notif.ReleaseURL # <<>>
    /\ last.notif.CurrentVersion # last.currentVersion

C9_ShouldCheckStrictlyPast ==
    /\ last.op = "shouldCheckForUpdate" =>
        IF last.readOk /\ cacheFile.state = "json"
        THEN last.shouldCheck <=> (last.at - cacheFile.json.last_check > checkInterval)
        ELSE last.shouldCheck
    /\ \A age \in {23, 24, 25} :
        shouldCheckForUpdate(UpdateCache(now, FALSE, <<>>, <<>>, FALSE, <<>>, FALSE),
                             now + age, NewUpdater("24h")) <=> (age = 25)

\* C9 witness: the function was asked about a cache entry exactly one interval old
C9_Witness ==
    /\ last.op = "shouldCheckForUpdate"
    /\ last.readOk
    /\ cacheFile.state = "json"
    /\ last.at - cacheFile.json.last_check = checkInterval
    /\ ~last.shouldCheck

\* C10: for a current version that does not parse, in every cache state,
\* CheckForUpdate returns no error and a non-nil notification with
\* Available = false, and does not touch the cache.
C10_DevBuildNeverAvailable ==
    (last.op = "CheckForUpdate" /\ ~Parsed[last.currentVersion].ok) =>
        /\ last.err = NoErr
        /\ ~last.notif.isNil
        /\ ~last.notif.Available
        /\ last.writes = 0

\* the running version was parseable and the cache missing, unreadable, corrupt
\* or expired when the call of this step was made
MissWithParseableVersion ==
    /\ Parsed[last'.currentVersion].ok
    /\ shouldCheckForUpdate(getCachedUpdate(cacheFile, last'.readOk), now, checkInterval)

\* C12: on a cache miss or expiry, for a parseable current version C and a release
\* with parseable tag L, CheckForUpdate returns Available = L.IsNewerThan(C) with
\* CurrentVersion and LatestVersion the canonical strings of C and L (1.0.0 against
\* 1.0.0: not available; against 1.1.0: available, LatestVersion "1.1.0"); when
\* Available is false, IsPreRelease is false and ReleaseURL is empty.
C12_AvailableIffNewer ==
    [][(/\ CheckForUpdateCalled
        /\ MissWithParseableVersion
        /\ ~last'.answer.failed
        /\ Parsed[last'.answer.release.TagName].ok)
       =>
       LET C == Parsed[last'.currentVersion]
           L == Parsed[last'.answer.release.TagName]
       IN /\ last'.err = NoErr
          /\ ~last'.notif.isNil
          /\ last'.notif.Available <=> IsNewerThan(L, C)
          /\ last'.notif.CurrentVersion = String(C)
          /\ last'.notif.LatestVersion = String(L)
          /\ ~last'.notif.Available =>
                (~last'.notif.IsPreRelease /\ last'.notif.ReleaseURL = <<>>)
          /\ (last'.currentVersion = V_1_0_0 /\ L = Parsed[<<"v">> \o V_1_0_0]) =>
                ~last'.notif.Available
          /\ (last'.currentVersion = V_1_0_0 /\ L = Parsed[V_v1_1_0]) =>
                (last'.notif.Available
                    /\ last'.notif.LatestVersion = <<"1", ".", "1", ".", "0">>)]_vars

\* C12 witness: the expired cache of an available update was followed by a check
\* that found the release equal to the running version
C12_Witness ==
    /\ last.op = "CheckForUpdate"
    /\ last.cacheWas = "json"
    /\ last.readOk
    /\ last.queries # <<>>
    /\ last.currentVersion = V_1_0_0
    /\ last.answer.release.TagName = <<"v">> \o V_1_0_0
    /\ ~last.notif.isNil
    /\ ~last.notif.Available
    /\ last.notif.LatestVersion = V_1_0_0

\* C13: after a CheckForUpdate that asked the release source and returned no
\* error, its cache write succeeding, the cache file holds LastCheck = the time of
\* the call and UpdateAvailable, CurrentVersion, LatestVersion, IsPreRelease and
\* ReleaseURL equal to the fields of the returned notification, whether or not an
\* update is available.
C13_CacheHoldsReturnedNotification ==
    [][(/\ CheckForUpdateCalled
        /\ last'.queries # <<>>
        /\ last'.err = NoErr
        /\ last'.written)
       =>
       (/\ cacheFile'.state = "json"
        /\ LET cache == Unmarshal(cacheFile'.json)
           IN /\ cache.LastCheck = now
              /\ cache.UpdateAvailable = last'.notif.Available
              /\ cache.CurrentVersion = last'.notif.CurrentVersion
              /\ cache.LatestVersion = last'.notif.LatestVersion
              /\ cache.IsPreRelease = last'.notif.IsPreRelease
              /\ cache.ReleaseURL = last'.notif.ReleaseURL)]_vars

\* C13 witness: an up-to-date outcome has overwritten the cache entry of an
\* available update
C13_Witness ==
    /\ last.op = "CheckForUpdate"
    /\ last.cacheWas = "json"
    /\ last.queries # <<>>
    /\ last.written
    /\ ~last.notif.Available
    /\ last.at > 0
    /\ cacheFile.state = "json"
    /\ cacheFile.json.last_check = last.at
    /\ ~cacheFile.json.update_available

\* the step is a call of GetUpdateInfo
GetUpdateInfoCalled ==
    last'.seq # last.seq /\ last'.op = "GetUpdateInfo"

\* the release source was asked and returned a release whose tag does not parse
ReturnedUnparsableTag ==
    /\ ~last'.answer.failed
    /\ ~Parsed[last'.answer.release.TagName].ok

\* C11: on a cache miss or expiry with a parseable current version, a release
\* whose tag does not parse as a Version makes CheckForUpdate return a non-nil
\* error and leave the cache file as it was before the call; and so does
\* GetUpdateInfo, called with a parseable current version.
C11_UnparsableRemoteTag ==
    [][/\ (/\ CheckForUpdateCalled
            /\ MissWithParseableVersion
            /\ ReturnedUnparsableTag)
           =>
           (/\ last'.err # NoErr
            /\ Mentions(last'.err, "failed to parse latest version")
            /\ last'.notif.isNil
            /\ last'.writes = 0
            /\ cacheFile' = cacheFile)
       /\ (/\ GetUpdateInfoCalled
            /\ Parsed[last'.currentVersion].ok
            /\ ReturnedUnparsableTag)
           =>
           (/\ last'.err # NoErr
            /\ Mentions(last'.err, "failed to parse latest version")
            /\ last'.info.isNil
            /\ last'.writes = 0
            /\ cacheFile' = cacheFile)]_vars

\* C11 witness: a check over an expired cache entry was answered with a tag that
\* does not parse, and the entry is still there
C11_Witness ==
    /\ last.op = "CheckForUpdate"
    /\ last.readOk
    /\ last.cacheWas = "json"
    /\ cacheFile.state = "json"
    /\ last.at - cacheFile.json.last_check > checkInterval
    /\ ~last.answer.failed
    /\ ~Parsed[last.answer.release.TagName].ok
    /\ Mentions(last.err, "failed to parse latest version")

\* the cache file was missing, unreadable or no JSON when the call of this step
\* was made
CacheUnusable ==
    \/ cacheFile.state = "absent"
    \/ cacheFile.state = "corrupt"
    \/ ~last'.readOk

\* the error of the call of this step, if any, is that of the release source or
\* of the tag of the release it returned
ErrorIsFromRelease ==
    last'.err # NoErr =>
        /\ last'.queries # <<>>
        /\ last'.answer.failed \/ ~Parsed[last'.answer.release.TagName].ok

\* C25 as stated: if the cache file is missing, unreadable or does not parse as
\* JSON, getCachedUpdate returns no cache and CheckForUpdate treats it as a cache
\* miss and proceeds to the network check; a cache read failure never makes
\* CheckForUpdate return an error.
C25_UnusableCacheIsMiss ==
    [][(CheckForUpdateCalled /\ CacheUnusable) =>
        /\ getCachedUpdate(cacheFile, last'.readOk).isNil
        /\ Len(last'.queries) = 1
        /\ ErrorIsFromRelease]_vars

\* C25 as amended: the same, the network check being made when the current
\* version parses; when it does not parse the call returns no update and no error
\* without asking the release source.
C25_UnusableCacheIsMissForParseable ==
    [][(CheckForUpdateCalled /\ CacheUnusable) =>
        /\ getCachedUpdate(cacheFile, last'.readOk).isNil
        /\ IF Parsed[last'.currentVersion].ok
           THEN Len(last'.queries) = 1
           ELSE /\ last'.queries = <<>>
                /\ last'.err = NoErr
                /\ ~last'.notif.isNil
                /\ ~last'.notif.Available
        /\ ErrorIsFromRelease]_vars

\* C25 witness: a cache entry young enough to be served could not be read, and
\* the release source was asked
C25_Witness ==
    /\ last.op = "CheckForUpdate"
    /\ last.cacheWas = "json"
    /\ ~last.readOk
    /\ last.answer.failed
    /\ last.queries # <<>>
    /\ cacheFile.state = "json"
    /\ last.at - cacheFile.json.last_check <= checkInterval

\* C26: a failure to create the cache directory or to write the cache file never
\* changes the result of CheckForUpdate or GetUpdateInfo: for the same inputs and
\* the same answer of the release source, the notification or info and the error
\* returned are those returned when saveUpdateCache succeeds.
C26_SaveFailureChangesNothing ==
    [][/\ (CheckForUpdateCalled /\ last'.writes > 0) =>
            LET ok == CheckForUpdateResult(cacheFile, now, checkInterval,
                                           last'.currentVersion, last'.channel,
                                           last'.readOk, last'.answer, "ok")
            IN /\ last'.notif = ok.notif
               /\ last'.err = ok.err
               /\ last'.err = NoErr
       /\ (GetUpdateInfoCalled /\ last'.writes > 0) =>
            LET ok == GetUpdateInfoResult(now, last'.currentVersion, last'.channel,
                                          last'.answer)
            IN /\ last'.info = ok.info
               /\ ~last'.info.isNil
               /\ last'.err = ok.err
               /\ last'.err = NoErr]_vars

\* C26 witness: GetUpdateInfo returned an update although its cache write had
\* truncated the cache file
C26_Witness ==
    /\ last.op = "GetUpdateInfo"
    /\ last.writes = 1
    /\ ~last.written
    /\ cacheFile.state = "corrupt"
    /\ ~last.info.isNil
    /\ last.err = NoErr

\* C28: each call of CheckForUpdate or GetUpdateInfo makes at most one request to
\* the release source; if that request fails the call returns a non-nil error at
\* once, without a retry, and the cache file is left as it was before the call.
C28_OneRequestNoRetry ==
    [][(CheckForUpdateCalled \/ GetUpdateInfoCalled) =>
        /\ Len(last'.queries) <= 1
        /\ (last'.queries # <<>> /\ last'.answer.failed) =>
                /\ Len(last'.queries) = 1
                /\ last'.err # NoErr
                /\ Mentions(last'.err, "failed to fetch latest release")
                /\ last'.notif.isNil
                /\ last'.info.isNil
                /\ last'.writes = 0
                /\ cacheFile' = cacheFile]_vars

\* C28 witness: the request of a GetUpdateInfo failed and the cache entry of an
\* earlier check is still in place
C28_Witness ==
    /\ last.op = "GetUpdateInfo"
    /\ Len(last.queries) = 1
    /\ last.answer.failed
    /\ last.err # NoErr
    /\ cacheFile.state = "json"
    /\ cacheFile.json.last_check < last.at

\* C29: CheckForUpdate returns a non-nil UpdateNotification on every call, for
\* every input, cache state and outcome of the release source.
C29_NotificationNeverNil ==
    last.op = "CheckForUpdate" => ~last.notif.isNil

\* C34: over every sequence of CheckForUpdate calls and upgrades, a notification
\* returned for a parseable current version V reports CurrentVersion equal to the
\* canonical form of V and a release of the channel resolved from V and the
\* channel argument; in particular, after an upgrade from V1 to V2 a
\* CheckForUpdate(V2) within the check interval does not report Available = true
\* with CurrentVersion = V1 out of the cache written before the upgrade.
C34_NotificationIsForCaller ==
    (/\ last.op = "CheckForUpdate"
     /\ Parsed[last.currentVersion].ok
     /\ ~last.notif.isNil)
    =>
    /\ last.notif.CurrentVersion = String(Parsed[last.currentVersion])
    /\ last.notif.Available =>
            IsNewerThan(ParseVersion(last.notif.LatestVersion),
                        Parsed[last.currentVersion])

\* what GetUpdateInfo does with the cache: it asks the release source whenever
\* the current version parses, whatever the cache holds, and writes the cache
\* only when it returns an UpdateInfo, with UpdateAvailable = true and
\* LastCheck = now
GetUpdateInfoCacheUse ==
    GetUpdateInfoCalled =>
        /\ Parsed[last'.currentVersion].ok => Len(last'.queries) = 1
        /\ (last'.writes > 0) <=> ~last'.info.isNil
        /\ last'.writes = 0 => cacheFile' = cacheFile
        /\ last'.written =>
                /\ cacheFile'.state = "json"
                /\ cacheFile'.json.update_available
                /\ cacheFile'.json.last_check = now

\* the step is a CheckForUpdate that follows a GetUpdateInfo that returned "no
\* update", while the cache holds an entry with UpdateAvailable = true no older
\* than the check interval
CheckAfterNoUpdateInfo ==
    /\ CheckForUpdateCalled
    /\ last.op = "GetUpdateInfo"
    /\ last.info.isNil
    /\ last.err = NoErr
    /\ cacheFile.state = "json"
    /\ cacheFile.json.update_available
    /\ now - cacheFile.json.last_check <= checkInterval

\* the call of this step was served the cached entry
ServedFromCache ==
    /\ last'.queries = <<>>
    /\ last'.err = NoErr
    /\ last'.notif = NotificationFromCache(Unmarshal(cacheFile.json))
    /\ last'.notif.Available

-----------------------------------------------------------------------------
(* Properties of the channel policy and of the asset resolver, checked under
   SpecInfo *)

\* C14: for every current version and every configured channel that is neither
\* empty nor "stable", determineChannel returns the configured string as it is,
\* whatever the pre-release label of the current version (1.0.0-alpha.1 with beta
\* gives beta; 1.0.0 with alpha gives alpha).
C14_ConfiguredChannelWins ==
    /\ (last.op = "determineChannel" /\ last.channel \notin {<<>>, S_stable}) =>
            last.effective = last.channel
    /\ determineChannel(Parsed[V_1_0_0_alpha_1], S_beta) = S_beta
    /\ determineChannel(Parsed[V_1_0_0], S_alpha) = S_alpha

\* C14 witness: a release candidate configured to a channel that is no known track
C14_Witness ==
    /\ last.op = "determineChannel"
    /\ last.currentVersion = V_1_0_0_rc_1
    /\ last.channel = S_nightly
    /\ last.effective = S_nightly

\* C15: with the configured channel empty or "stable", determineChannel returns
\* the first dot-separated component of the current version's pre-release label
\* when it is alpha, beta or rc, and the empty string otherwise (stable version,
\* unrecognized label such as 1.0.0-dev); it never returns "stable".
C15_TrackContinuity ==
    (last.op = "determineChannel" /\ last.channel \in {<<>>, S_stable}) =>
        LET first == Split(Parsed[last.currentVersion].prerelease, ".")[1]
        IN /\ last.effective = (IF first \in {S_alpha, S_beta, S_rc} THEN first ELSE <<>>)
           /\ last.effective # S_stable

\* C15 witness: an unrecognized label was treated as stable under the configured
\* channel "stable"
C15_Witness ==
    /\ last.op = "determineChannel"
    /\ last.currentVersion = V_1_0_0_dev
    /\ last.channel = S_stable
    /\ last.effective = <<>>

C21_NativeArchNames ==
    last.op = "getAssetNameForPlatform" =>
        /\ last.hint = goos \o <<"_">> \o goarch
        /\ ~Contains(last.hint, S_x86_64)

\* C27: NewUpdater never fails: for every check-interval string that does not
\* parse as a duration the Updater it constructs uses a check interval of exactly
\* 24 hours, and for every string that parses it uses the parsed duration.
C27_IntervalDefaultsTo24h ==
    /\ last.op = "NewUpdater" =>
        IF ParseDuration(last.intervalText).ok
        THEN checkInterval = ParseDuration(last.intervalText).hours
        ELSE checkInterval = 24
    /\ NewUpdater("12h") = 12
    /\ NewUpdater("every day") = 24

\* C27 witness: an Updater was constructed with a string that is no duration
C27_Witness ==
    /\ last.op = "NewUpdater"
    /\ last.intervalText = "tomorrow"
    /\ checkInterval = 24

\* the host is one the install script supports
ScriptSupportsHost ==
    /\ ScriptOS(UnameS) # <<>>
    /\ \A m \in UnameM : ScriptArch(m) # <<>>

\* C38: for a release whose assets are named as the install script names them
\* (tasklog_<version>_<os>_<arch>, <arch> amd64 or arm64, <os> linux or darwin)
\* the platform hint of getAssetNameForPlatform on the corresponding host is a
\* substring of the script's binary name, so the asset loop of GetUpdateInfo finds
\* a matching asset.
C38_HintMatchesInstallScriptName ==
    (last.op = "getAssetNameForPlatform" /\ ScriptSupportsHost) =>
        \A version \in ScriptVersions, m \in UnameM :
            LET name == BINARY_NAME(version, ScriptOS(UnameS), ScriptArch(m))
            IN /\ Contains(name, last.hint)
               /\ ~NoBinaryFound(SelectAsset(<<Asset(name, "https://dl/script")>>, last.hint))

\* the assets of the release the call of this step was answered with
AssetsReturned ==
    last'.answer.release.Assets

\* the call of this step got as far as the assets: its version parsed, and the
\* release source returned a release with a parseable tag newer than it
ReachedAssets ==
    /\ Parsed[last'.currentVersion].ok
    /\ ~last'.answer.failed
    /\ Parsed[last'.answer.release.TagName].ok
    /\ IsNewerThan(Parsed[last'.answer.release.TagName], Parsed[last'.currentVersion])

\* the i-th asset returned is the first whose name contains the platform hint
IsFirstMatch(i) ==
    /\ Contains(AssetsReturned[i].Name, getAssetNameForPlatform)
    /\ \A j \in 1..(i - 1) : ~Contains(AssetsReturned[j].Name, getAssetNameForPlatform)

\* no asset returned has a name that contains the platform hint
NoMatch ==
    \A i \in 1..Len(AssetsReturned) :
        ~Contains(AssetsReturned[i].Name, getAssetNameForPlatform)

\* the call failed for want of a binary for the host
FailedNoBinary ==
    /\ last'.info.isNil
    /\ Mentions(last'.err, "no binary found for platform")

\* C16: GetUpdateInfo returns no UpdateInfo and no error in exactly two cases:
\* the current version does not parse, and then the release source is not asked;
\* or the latest version fetched is not newer than the current one. In both it
\* leaves the cache as it was.
C16_AbsentWithoutError ==
    [][GetUpdateInfoCalled =>
        LET C == Parsed[last'.currentVersion]
            L == Parsed[last'.answer.release.TagName]
            absent == last'.info.isNil /\ last'.err = NoErr
        IN /\ absent <=>
                \/ ~C.ok
                \/ (C.ok /\ ~last'.answer.failed /\ L.ok /\ ~IsNewerThan(L, C))
           /\ ~C.ok => last'.queries = <<>>
           /\ absent => (last'.writes = 0 /\ cacheFile' = cacheFile)]_vars

\* C16 witness: a release older than the running version left the cache entry of
\* an earlier call in place
C16_Witness ==
    /\ last.op = "GetUpdateInfo"
    /\ last.currentVersion = V_1_2_0
    /\ last.answer.release.TagName = V_v1_1_0
    /\ last.info.isNil
    /\ last.err = NoErr
    /\ cacheFile.state = "json"
    /\ cacheFile.json.current_version = V_1_0_0

\* C17: when the latest release is newer than the current version and none of its
\* assets has a name containing the platform hint, GetUpdateInfo returns no
\* UpdateInfo and an error naming the platform, and does not write the cache;
\* whenever it returns an UpdateInfo, the DownloadURL is not empty and the
\* AssetName is the name of an asset of the release that contains the hint.
C17_NoBinaryForPlatform ==
    [][GetUpdateInfoCalled =>
        /\ (ReachedAssets /\ NoMatch) =>
                /\ FailedNoBinary
                /\ last'.err[Len(last'.err)] = goos \o <<"/">> \o goarch
                /\ last'.writes = 0
                /\ cacheFile' = cacheFile
        /\ ~last'.info.isNil =>
                /\ last'.info.DownloadURL # ""
                /\ Contains(last'.info.AssetName, getAssetNameForPlatform)
                /\ \E i \in 1..Len(AssetsReturned) :
                        AssetsReturned[i].Name = last'.info.AssetName]_vars

\* C17 witness: a release with assets for other platforms only, on a host whose
\* cache holds the entry of an earlier call
C17_Witness ==
    /\ last.op = "GetUpdateInfo"
    /\ goos = S_linux
    /\ goarch = S_amd64
    /\ Len(last.answer.release.Assets) = 3
    /\ last.info.isNil
    /\ Mentions(last.err, "no binary found for platform")
    /\ cacheFile.state = "json"

\* C18: for a release that has both the bare binary and an archive (.tar.gz, .zip)
\* of the host's platform, in any order, GetUpdateInfo selects the bare binary
\* and never the archive.
C18_ArchiveNeverShadowsBinary ==
    (/\ last.op = "GetUpdateInfo"
     /\ ~last.info.isNil
     /\ \E i, j \in 1..Len(last.answer.release.Assets) :
            LET bare == last.answer.release.Assets[i].Name
                archive == last.answer.release.Assets[j].Name
            IN /\ Contains(bare, getAssetNameForPlatform)
               /\ ~IsArchive(bare)
               /\ archive \in {bare \o Ext_tar_gz, bare \o Ext_zip})
    => ~IsArchive(last.info.AssetName)

-----------------------------------------------------------------------------
(* Properties of the version order, checked under SpecVersion *)

\* the channel and the counter of a structured pre-release label
ChannelOf(label) ==
    Split(label, ".")[1]

CounterOf(label) ==
    Atoi(Split(label, ".")[2])

\* the position of a channel in alpha < beta < rc
Precedence(channel) ==
    CASE channel = S_alpha -> 1 [] channel = S_beta -> 2 [] channel = S_rc -> 3

SameTriple(A, B) ==
    A.major = B.major /\ A.minor = B.minor /\ A.patch = B.patch

-----------------------------------------------------------------------------
(* Properties of the configuration comparison, checked under SpecConfig *)

\* CompareWithExample has returned a result
Compared ==
    last.op = "CompareWithExample" /\ ~last.result.isNil

\* the paths of the keys of first that second lacks at the same position, the
\* sections being looked into where both values are maps
PathsLacking(first, second) ==
    (DOMAIN first \ DOMAIN second) \cup
        UNION {{CurrentPath(key, child) : child \in DOMAIN first[key].m \ DOMAIN second[key].m} : key \in {k \in DOMAIN first \cap DOMAIN second : first[k].isMap /\ second[k].isMap}}

\* the user's configuration without the keys the example does not have
WithoutExtras(user, example) ==
    [key \in DOMAIN user \cap DOMAIN example |->
        IF user[key].isMap /\ example[key].isMap
        THEN MapValue([child \in DOMAIN user[key].m \cap DOMAIN example[key].m |-> user[key].m[child]])
        ELSE user[key]]

\* C39: CompareWithExample sets IsUpToDate to true if and only if MissingKeys is
\* empty; the keys of the user's configuration that the example does not have are
\* reported in ExtraKeys and never make IsUpToDate false.
C39_UpToDateIffNothingMissing ==
    Compared =>
        LET user == last.userConfigData.document
            stripped == [wellFormed |-> TRUE, document |-> WithoutExtras(user, last.example)]
        IN /\ last.result.IsUpToDate <=> (last.result.MissingKeys = NoKeys)
           /\ PathsLacking(user, last.example) \subseteq DOMAIN last.result.ExtraKeys
           /\ last.result.IsUpToDate =
                CompareWithExampleResult(stripped, last.example).result.IsUpToDate

\* C39 witness: a configuration with a key of its own at the top level and one in
\* a section was found up to date
C39_Witness ==
    /\ Compared
    /\ last.result.IsUpToDate
    /\ K_jira_url \in DOMAIN last.result.ExtraKeys
    /\ CurrentPath(K_update, K_channel) \in DOMAIN last.result.ExtraKeys
    /\ DOMAIN last.example = TopKeys

\* C40: findMissingKeys reports exactly the dotted paths of the keys that the
\* example has and the user's configuration lacks at the same nesting position: a
\* missing parent is reported once by its own path and none of its children,
\* nested keys are compared only where the value is a map on both sides, and each
\* path is reported at most once; findExtraKeys(user, example) yields the set
\* findMissingKeys yields with the roles swapped.
C40_MissingKeysExact ==
    Compared =>
        LET user == last.userConfigData.document
            example == last.example
            missing == last.result.MissingKeys
        IN /\ DOMAIN missing = PathsLacking(example, user)
           /\ \A path \in DOMAIN missing : missing[path] = 1
           /\ \A key \in DOMAIN example \ DOMAIN user :
                /\ key \in DOMAIN missing
                /\ \A child \in NestedKeys : CurrentPath(key, child) \notin DOMAIN missing
           /\ \A key \in DOMAIN example \cap DOMAIN user :
                ~(example[key].isMap /\ user[key].isMap) =>
                    \A child \in NestedKeys : CurrentPath(key, child) \notin DOMAIN missing
           /\ DOMAIN last.result.ExtraKeys = DOMAIN findMissingKeys(user, example, <<>>, NoKeys)

\* C40 witness: a whole section of the example and one key of another section
\* were missing, and each was reported
C40_Witness ==
    /\ Compared
    /\ DOMAIN last.example = TopKeys
    /\ last.example[K_update] = MapValue([key \in NestedKeys |-> Scalar])
    /\ DOMAIN last.result.MissingKeys = {K_update, CurrentPath(K_jira, K_channel)}
    /\ ~last.result.IsUpToDate

====
